---- MODULE Spec2Model ----
(***************************************************************************)
(* Model of the YouTrack workflow generator agent: the orchestrator        *)
(* (agent/agent.py), its session memory (agent/memory.py), its LLM-backed  *)
(* stages and the line parsers of the LLM responses.                       *)
(*                                                                         *)
(* A text is a sequence of one-character strings; a multi-line text (an    *)
(* LLM response) is the sequence of its lines, i.e. text.split("\n").      *)
(***************************************************************************)
EXTENDS Integers, Sequences, FiniteSets, TLC

Null == "None"

\* ------------------------------------------------------------------------
\* Python string primitives
\* ------------------------------------------------------------------------

\* characters removed by str.strip()
IsSpace(c) == c \in {" ", "\t", "\n"}

\* str.isdigit() on one character
isdigit(c) == c \in {"0", "1", "2", "3", "4", "5", "6", "7", "8", "9"}

UpperToLower ==
  [c \in {"A", "B", "C", "D", "E", "F", "G", "H", "I", "J", "K", "L", "M", "N", "O", "P", "Q", "R", "S", "T", "U", "V", "W", "X", "Y", "Z"} |->
     CASE c = "A" -> "a"
       [] c = "B" -> "b"
       [] c = "C" -> "c"
       [] c = "D" -> "d"
       [] c = "E" -> "e"
       [] c = "F" -> "f"
       [] c = "G" -> "g"
       [] c = "H" -> "h"
       [] c = "I" -> "i"
       [] c = "J" -> "j"
       [] c = "K" -> "k"
       [] c = "L" -> "l"
       [] c = "M" -> "m"
       [] c = "N" -> "n"
       [] c = "O" -> "o"
       [] c = "P" -> "p"
       [] c = "Q" -> "q"
       [] c = "R" -> "r"
       [] c = "S" -> "s"
       [] c = "T" -> "t"
       [] c = "U" -> "u"
       [] c = "V" -> "v"
       [] c = "W" -> "w"
       [] c = "X" -> "x"
       [] c = "Y" -> "y"
       [] c = "Z" -> "z"]

\* str.lower()
lower(s) ==
  [i \in 1..Len(s) |-> IF s[i] \in DOMAIN UpperToLower THEN UpperToLower[s[i]] ELSE s[i]]

RECURSIVE lstrip(_)
lstrip(s) ==
  IF s = <<>> THEN s
  ELSE IF IsSpace(Head(s)) THEN lstrip(Tail(s)) ELSE s

RECURSIVE rstrip(_)
rstrip(s) ==
  IF s = <<>> THEN s
  ELSE IF IsSpace(s[Len(s)]) THEN rstrip(SubSeq(s, 1, Len(s) - 1)) ELSE s

\* str.strip()
strip(s) == rstrip(lstrip(s))

\* str.startswith(p)
startswith(s, p) == Len(s) >= Len(p) /\ SubSeq(s, 1, Len(p)) = p

\* s[n:] with n counted from 0
slice_from(s, n) == SubSeq(s, n + 1, Len(s))

\* positions (1-based) at which p occurs in s
Occurrences(s, p) ==
  {i \in 1..(Len(s) - Len(p) + 1) : SubSeq(s, i, i + Len(p) - 1) = p}

\* p in s
contains(s, p) == Occurrences(s, p) # {}

\* s.split(sep, 1)[1], defined when sep occurs in s
split_once_tail(s, sep) ==
  LET i == CHOOSE k \in Occurrences(s, sep) : \A m \in Occurrences(s, sep) : k <= m
  IN  SubSeq(s, i + Len(sep), Len(s))

\* ------------------------------------------------------------------------
\* ChainOfThoughtStrategy._parse_cot_result          (agent/strategies/cot.py)
\* ------------------------------------------------------------------------

H_reasoning == <<"r", "e", "a", "s", "o", "n", "i", "n", "g", ":">>
H_steps == <<"s", "t", "e", "p", "s", ":">>
H_missing == <<"m", "i", "s", "s", "i", "n", "g", " ", "i", "n", "f", "o", "r", "m", "a", "t", "i", "o", "n", ":">>
H_ambiguities == <<"a", "m", "b", "i", "g", "u", "i", "t", "i", "e", "s", ":">>
H_needs == <<"n", "e", "e", "d", "s", " ", "c", "l", "a", "r", "i", "f", "i", "c", "a", "t", "i", "o", "n", ":">>
S_yes == <<"y", "e", "s">>
S_dotspace == <<".", " ">>
\* U+2022 is written "BULLET": one character
BulletPrefixes == {<<"-", " ">>, <<"*", " ">>, <<"BULLET", " ">>}

cot_initial_result_mut ==
  [success |-> TRUE, reasoning |-> <<>>, steps |-> <<>>,
   missing_information |-> <<>>, ambiguities |-> <<>>,
   needs_clarification |-> TRUE]

\* the dictionary the parser starts from
cot_initial_result ==
  [success |-> TRUE, reasoning |-> <<>>, steps |-> <<>>,
   missing_information |-> <<>>, ambiguities |-> <<>>,
   needs_clarification |-> FALSE]

\* line.startswith(("- ", "* ", U+2022 + " "))
starts_with_bullet(line) == \E b \in BulletPrefixes : startswith(line, b)

\* line[0].isdigit() and ". " in line
starts_with_number(line) == isdigit(line[1]) /\ contains(line, S_dotspace)

\* the item a line adds to the missing_information / ambiguities list
list_item(line) ==
  IF starts_with_bullet(line) THEN strip(slice_from(line, 2))
  ELSE IF starts_with_number(line) THEN split_once_tail(line, S_dotspace)
  ELSE line

\* the steps list after a line of the Steps section
steps_after(steps, line) ==
  IF starts_with_number(line) THEN Append(steps, split_once_tail(line, S_dotspace))
  ELSE IF steps # <<>>
       THEN [steps EXCEPT ![Len(steps)] = @ \o <<" ">> \o line]
       ELSE steps

\* one iteration of the loop over content.split("\n"); st = [result, current_section]
cot_line(st, raw) ==
  LET line == strip(raw)
      r == st.result
      sec == st.current_section
  IN
  IF line = <<>> THEN st
  ELSE IF startswith(lower(line), H_reasoning)
    THEN [result |-> [r EXCEPT !.reasoning = strip(slice_from(line, Len(H_reasoning)))],
          current_section |-> "reasoning"]
  ELSE IF startswith(lower(line), H_steps)
    THEN [st EXCEPT !.current_section = "steps"]
  ELSE IF startswith(lower(line), H_missing)
    THEN [st EXCEPT !.current_section = "missing_information"]
  ELSE IF startswith(lower(line), H_ambiguities)
    THEN [st EXCEPT !.current_section = "ambiguities"]
  ELSE IF startswith(lower(line), H_needs)
    THEN [result |-> [r EXCEPT !.needs_clarification =
                        startswith(lower(strip(slice_from(line, Len(H_needs)))), S_yes)],
          current_section |-> Null]
  ELSE IF sec = "reasoning"
    THEN [st EXCEPT !.result.reasoning = @ \o <<"\n">> \o line]
  ELSE IF sec = "steps"
    THEN [st EXCEPT !.result.steps = steps_after(@, line)]
  ELSE IF sec = "missing_information"
    THEN [st EXCEPT !.result.missing_information = Append(@, list_item(line))]
  ELSE IF sec = "ambiguities"
    THEN [st EXCEPT !.result.ambiguities = Append(@, list_item(line))]
  ELSE st

RECURSIVE cot_scan(_, _)
cot_scan(st, lines) ==
  IF lines = <<>> THEN st ELSE cot_scan(cot_line(st, Head(lines)), Tail(lines))

force_needs_clarification_mut(result) == result

\* the override after the loop: any missing information or ambiguity forces True
force_needs_clarification(result) ==
  IF result.missing_information # <<>> \/ result.ambiguities # <<>>
  THEN [result EXCEPT !.needs_clarification = TRUE]
  ELSE result

parse_cot_result(content) ==
  force_needs_clarification(
    cot_scan([result |-> cot_initial_result, current_section |-> Null], content).result)

\* "\n".join(lines)
RECURSIVE join_lines(_)
join_lines(lines) ==
  IF lines = <<>> THEN <<>>
  ELSE IF Len(lines) = 1 THEN lines[1]
  ELSE lines[1] \o <<"\n">> \o join_lines(Tail(lines))

\* text.split("\n")
RECURSIVE split_lines(_)
split_lines(text) ==
  IF ~contains(text, <<"\n">>) THEN <<text>>
  ELSE LET i == CHOOSE k \in Occurrences(text, <<"\n">>) :
                   \A m \in Occurrences(text, <<"\n">>) : k <= m
       IN  <<SubSeq(text, 1, i - 1)>> \o split_lines(SubSeq(text, i + 1, Len(text)))

\* str.endswith(p)
endswith(s, p) == Len(s) >= Len(p) /\ SubSeq(s, Len(s) - Len(p) + 1, Len(s)) = p

\* min, max
Min(a, b) == IF a <= b THEN a ELSE b
Max(a, b) == IF a >= b THEN a ELSE b

\* Optional values: None is the empty tuple, a value v is <<v>>
None == <<>>
Some(v) == <<v>>

\* ------------------------------------------------------------------------
\* LLMRequestTool.execute                          (agent/tools/llm_request.py)
\* ------------------------------------------------------------------------
\* A reply is what the HTTP exchange produces: an exception (connection or
\* JSON error), a JSON document without choices, or a document with content.
ReplyException == [kind |-> "exception"]
ReplyNoChoices == [kind |-> "no_choices"]
ReplyContent(c) == [kind |-> "content", content |-> c]

E_exception == "ConnectionError"
E_no_content == "No content in response"

Raise == [raised |-> TRUE]
Raised(r) == "raised" \in DOMAIN r

llm_execute_mut(reply) ==
  IF reply.kind = "content" THEN [success |-> TRUE, content |-> reply.content]
  ELSE IF reply.kind = "no_choices" THEN [success |-> FALSE, error |-> E_no_content]
  ELSE Raise

\* try: post, parse, extract the content; except Exception: failure record
llm_execute(reply) ==
  IF reply.kind = "content" THEN [success |-> TRUE, content |-> reply.content]
  ELSE IF reply.kind = "no_choices" THEN [success |-> FALSE, error |-> E_no_content]
  ELSE [success |-> FALSE, error |-> E_exception]

\* ------------------------------------------------------------------------
\* ChainOfThoughtStrategy.execute                    (agent/strategies/cot.py)
\* ------------------------------------------------------------------------
cot_failure_result_mut(error, prompt) ==
  [success |-> FALSE, error |-> error, prompt |-> prompt, reasoning |-> <<>>,
   steps |-> <<>>, missing_information |-> <<>>, ambiguities |-> <<>>,
   needs_clarification |-> FALSE]

\* the record returned when the LLM call failed
cot_failure_result(error, prompt) ==
  [success |-> FALSE, error |-> error, prompt |-> prompt, reasoning |-> <<>>,
   steps |-> <<>>, missing_information |-> <<>>, ambiguities |-> <<>>,
   needs_clarification |-> TRUE]

\* result is what self.llm_tool.execute(cot_prompt) returned
cot_execute(prompt, result) ==
  IF result.success
  THEN LET parsed == parse_cot_result(result.content)
       IN  [success |-> parsed.success, reasoning |-> parsed.reasoning,
            steps |-> parsed.steps,
            missing_information |-> parsed.missing_information,
            ambiguities |-> parsed.ambiguities,
            needs_clarification |-> parsed.needs_clarification,
            prompt |-> prompt, raw_content |-> result.content]
  ELSE cot_failure_result(result.error, prompt)

\* ------------------------------------------------------------------------
\* AskClarificationAction                   (agent/actions/ask_clarification.py)
\* ------------------------------------------------------------------------
Q_default == <<"C", "o", "u", "l", "d", " ", "y", "o", "u", " ", "p", "l", "e", "a", "s", "e", " ", "p", "r", "o", "v", "i", "d", "e", " ", "m", "o", "r", "e", " ", "d", "e", "t", "a", "i", "l", "s", " ", "a", "b", "o", "u", "t", " ", "y", "o", "u", "r", " ", "r", "e", "q", "u", "i", "r", "e", "m", "e", "n", "t", "s", "?">>
NumberPrefixes == {<<d, ".">> : d \in {"1", "2", "3", "4", "5", "6", "7", "8", "9"}}

\* the loop over the lines of content.strip()
RECURSIVE questions_of(_)
questions_of(lines) ==
  IF lines = <<>> THEN <<>>
  ELSE LET line == strip(Head(lines))
           rest == questions_of(Tail(lines))
       IN  IF line = <<>> THEN rest
           ELSE IF \E n \in NumberPrefixes : startswith(line, n)
                THEN <<strip(slice_from(line, 2))>> \o rest
           ELSE IF endswith(line, <<"?">>) THEN <<line>> \o rest
           ELSE rest

parse_questions_mut(content) ==
  questions_of(split_lines(strip(join_lines(content))))

\* content is the response as its sequence of lines
parse_questions(content) ==
  LET stripped == strip(join_lines(content))
      questions == questions_of(split_lines(stripped))
  IN  IF questions = <<>> /\ stripped # <<>> THEN <<stripped>> ELSE questions

\* result is what self.llm_tool.execute(prompt) returned
ask_clarification_execute(cot_result, result) ==
  IF result.success THEN parse_questions(result.content) ELSE <<Q_default>>

\* ------------------------------------------------------------------------
\* GetFeedbackObservation.get_clarification  (agent/observations/get_feedback.py)
\* ------------------------------------------------------------------------
\* answers[i] is what the user typed for questions[i]; responses keeps the
\* insertion order of the dictionary (question_1, question_2, ...)
get_clarification(questions, answers) ==
  [type |-> "clarification",
   responses |-> [i \in 1..Len(questions) |->
                    [question |-> questions[i], answer |-> answers[i]]]]

\* ------------------------------------------------------------------------
\* YouTrackWorkflowAgent helpers                               (agent/agent.py)
\* ------------------------------------------------------------------------
needs_clarification_mut(cot_result) == cot_result.needs_clarification

\* _needs_clarification: always ask
needs_clarification(cot_result) == TRUE

StopList == {<<"y", "e", "s">>, <<"n", "o">>, <<"n", "o", "n", "e">>, <<"n", "/", "a">>}

is_substantive_mut(answer) == Len(answer) > 3 /\ lower(answer) \notin StopList

\* len(answer.strip()) > 3 and not answer.lower() in [...]
is_substantive(answer) == Len(strip(answer)) > 3 /\ lower(answer) \notin StopList

\* A request text is the sequence of the pieces it was concatenated from.
\* _update_prompt_with_clarification
update_prompt_with_clarification(prompt, clarification) ==
  LET responses == clarification.responses
      qa == [i \in 1..Len(responses) |->
               [piece |-> "qa", question |-> responses[i].question,
                answer |-> responses[i].answer]]
      has_substantive_response ==
        \E i \in 1..Len(responses) : is_substantive(responses[i].answer)
      note == IF has_substantive_response THEN <<>> ELSE <<[piece |-> "note"]>>
  IN  prompt \o <<[piece |-> "clarification_header"]>> \o qa \o note

\* ------------------------------------------------------------------------
\* PlanStrategy                                      (agent/strategies/plan.py)
\* ------------------------------------------------------------------------
H_plan == <<"p", "l", "a", "n", ":">>
H_components == <<"c", "o", "m", "p", "o", "n", "e", "n", "t", "s", ":">>
H_requirements == <<"r", "e", "q", "u", "i", "r", "e", "m", "e", "n", "t", "s", ":">>

plan_line(st, raw) ==
  LET line == strip(raw)
      sec == st.current_section
  IN
  IF line = <<>> THEN st
  ELSE IF startswith(lower(line), H_plan)
    THEN [result |-> [st.result EXCEPT !.plan = strip(slice_from(line, Len(H_plan)))],
          current_section |-> "plan"]
  ELSE IF startswith(lower(line), H_components)
    THEN [st EXCEPT !.current_section = "components"]
  ELSE IF startswith(lower(line), H_requirements)
    THEN [st EXCEPT !.current_section = "requirements"]
  ELSE IF sec = "plan"
    THEN [st EXCEPT !.result.plan = @ \o <<"\n">> \o line]
  ELSE IF sec = "components"
    THEN [st EXCEPT !.result.components = Append(@, list_item(line))]
  ELSE IF sec = "requirements"
    THEN [st EXCEPT !.result.requirements = Append(@, list_item(line))]
  ELSE st

RECURSIVE plan_scan(_, _)
plan_scan(st, lines) ==
  IF lines = <<>> THEN st ELSE plan_scan(plan_line(st, Head(lines)), Tail(lines))

parse_plan_result(content) ==
  plan_scan([result |-> [success |-> TRUE, plan |-> <<>>, components |-> <<>>,
                         requirements |-> <<>>],
             current_section |-> Null], content).result

\* result is what self.llm_tool.execute(plan_prompt) returned
plan_execute(prompt, result) ==
  IF result.success
  THEN LET parsed == parse_plan_result(result.content)
       IN  [success |-> parsed.success, plan |-> parsed.plan,
            components |-> parsed.components, requirements |-> parsed.requirements,
            prompt |-> prompt, raw_content |-> result.content]
  ELSE [success |-> FALSE, error |-> result.error, prompt |-> prompt,
        plan |-> <<>>, components |-> <<>>, requirements |-> <<>>]

\* dict.get(key, default)
get(d, key, default) == IF key \in DOMAIN d THEN d[key] ELSE default

\* _create_plan_prompt: the prompt as the sequence of the pieces it is
\* concatenated from; cot_result is None when the caller passed none
create_plan_prompt(prompt, cot_result) ==
  LET reasoning == IF cot_result = None THEN <<>> ELSE get(cot_result[1], "reasoning", <<>>)
      steps == IF cot_result = None THEN <<>> ELSE get(cot_result[1], "steps", <<>>)
  IN     <<[piece |-> "plan_request", request |-> prompt]>>
      \o (IF reasoning # <<>> THEN <<[piece |-> "reasoning", reasoning |-> reasoning]>>
          ELSE <<>>)
      \o (IF steps # <<>> THEN <<[piece |-> "steps", steps |-> steps]>> ELSE <<>>)
      \o <<[piece |-> "plan_instructions"]>>

\* ------------------------------------------------------------------------
\* LLMRequestTool.generate_code, GenerateCodeTool.execute
\*                        (agent/tools/llm_request.py, agent/tools/generate_code.py)
\* ------------------------------------------------------------------------
\* The lines of script texts, each line one string; the fence marker (three
\* backquotes) is written FENCE.  LinesWith[n] is the set
\* of these lines in which the searched text n occurs ("fence_start": the
\* line starts with the fence marker; "field_assignment": the regular
\* expression of the requirements rule matches).
LinesWith ==
  [
    import |-> {"const entities = require('@jetbrains/youtrack-scripting-api/entities');"},
    exports_rule |-> {"exports.rule = entities.Issue.onChange({",
        "exports.rule = entities.Issue.onChange({ title: 'Assign', guard: (ctx) => true, action: (ctx) => {}, requirements: {} });",
        "exports.rule = entities.Issue.onChange({ title: 'Assign', action: (ctx) => {}, requirements: {} });"},
    title |-> {"  title: 'Basic Workflow Script',",
        "exports.rule = entities.Issue.onChange({ title: 'Assign', guard: (ctx) => true, action: (ctx) => {}, requirements: {} });",
        "exports.rule = entities.Issue.onChange({ title: 'Assign', action: (ctx) => {}, requirements: {} });"},
    guard |-> {"  guard: (ctx) => {",
        "exports.rule = entities.Issue.onChange({ title: 'Assign', guard: (ctx) => true, action: (ctx) => {}, requirements: {} });"},
    action |-> {"  action: (ctx) => {",
        "exports.rule = entities.Issue.onChange({ title: 'Assign', guard: (ctx) => true, action: (ctx) => {}, requirements: {} });",
        "exports.rule = entities.Issue.onChange({ title: 'Assign', action: (ctx) => {}, requirements: {} });"},
    field_assignment |-> {"ctx.issue.fields.State = 'Open';"},
    requirements |-> {"  requirements: {",
        "exports.rule = entities.Issue.onChange({ title: 'Assign', guard: (ctx) => true, action: (ctx) => {}, requirements: {} });",
        "exports.rule = entities.Issue.onChange({ title: 'Assign', action: (ctx) => {}, requirements: {} });"},
    while |-> {"while (true) {}"},
    break |-> {},
    try |-> {"try { f(); } finally {}"},
    catch |-> {},
    fence |-> {"FENCEjavascript",
        "FENCE",
        "Use FENCEinlineFENCE code"},
    fence_start |-> {"FENCEjavascript",
        "FENCE"}
  ]

ErrorComment(error) ==
  IF error = E_exception THEN "// Error generating code: ConnectionError"
  ELSE "// Error generating code: No content in response"

\* the template returned when generation failed
default_script(error) ==
  <<"",
    ErrorComment(error),
    "// This is a basic template that you can modify to meet your requirements.",
    "",
    "const entities = require('@jetbrains/youtrack-scripting-api/entities');",
    "",
    "exports.rule = entities.Issue.onChange({",
    "  title: 'Basic Workflow Script',",
    "  guard: (ctx) => {",
    "    const issue = ctx.issue;",
    "    // TODO: Add your guard conditions here",
    "    return true;",
    "  },",
    "  action: (ctx) => {",
    "    const issue = ctx.issue;",
    "    // TODO: Add your action logic here",
    "",
    "    // Example: Log a message",
    "    console.log('Workflow script executed for issue: ' + issue.id);",
    "  },",
    "  requirements: {",
    "    // TODO: Add your requirements here",
    "  }",
    "});",
    "">>

text_has(text, n) == \E i \in 1..Len(text) : text[i] \in LinesWith[n]

\* "\n".join(current_block) as lines: an empty block is the empty text
block_text(block) == IF block = <<>> THEN <<"">> ELSE block

\* the loop over the lines; st = [code_blocks, in_code_block, current_block]
RECURSIVE fence_scan(_, _)
fence_scan(st, lines) ==
  IF lines = <<>> THEN st
  ELSE LET line == Head(lines)
           next ==
             IF line \in LinesWith.fence_start
             THEN IF st.in_code_block
                  THEN [code_blocks |-> Append(st.code_blocks, block_text(st.current_block)),
                        in_code_block |-> FALSE, current_block |-> <<>>]
                  ELSE [st EXCEPT !.in_code_block = TRUE]
             ELSE IF st.in_code_block
                  THEN [st EXCEPT !.current_block = Append(@, line)]
                  ELSE st
       IN  fence_scan(next, Tail(lines))

\* "\n\n".join(code_blocks) as lines
RECURSIVE join_blocks(_)
join_blocks(blocks) ==
  IF Len(blocks) = 1 THEN blocks[1]
  ELSE blocks[1] \o <<"">> \o join_blocks(Tail(blocks))

\* the blocks joined without the test for an empty block list
extract_code_mut(content) ==
  IF text_has(content, "fence")
  THEN LET code_blocks ==
             fence_scan([code_blocks |-> <<>>, in_code_block |-> FALSE,
                         current_block |-> <<>>], content).code_blocks
       IN  IF code_blocks # <<>> THEN join_blocks(code_blocks) ELSE <<"">>
  ELSE content

\* the code extracted from the content of a successful response
extract_code(content) ==
  IF text_has(content, "fence")
  THEN LET code_blocks ==
             fence_scan([code_blocks |-> <<>>, in_code_block |-> FALSE,
                         current_block |-> <<>>], content).code_blocks
       IN  IF code_blocks # <<>> THEN join_blocks(code_blocks) ELSE content
  ELSE content

\* LLMRequestTool.generate_code
llm_generate_code(reply) ==
  LET result == llm_execute(reply)
  IN  IF Raised(result) THEN result
      ELSE IF result.success
           THEN [success |-> TRUE, content |-> result.content,
                 code |-> extract_code(result.content)]
           ELSE result

\* GenerateCodeTool.execute; result is what self.llm_tool.generate_code returned
generate_execute(result) ==
  IF result.success THEN result.code ELSE default_script(result.error)

\* _create_detailed_prompt: the prompt as the sequence of its pieces;
\* test_result is None when the caller passed none
create_detailed_prompt(prompt, search_results, code_shots, plan, test_result) ==
  LET plan_text == get(plan, "plan", <<>>)
      examples == [i \in 1..Min(Len(code_shots), 3) |->
                     [piece |-> "example",
                      title |-> get(code_shots[i], "title", ""),
                      description |-> get(code_shots[i], "description", ""),
                      code |-> get(code_shots[i], "code", "")]]
      snippets == [i \in 1..Min(Len(search_results), 5) |->
                     [piece |-> "snippet",
                      file |-> get(search_results[i], "file", ""),
                      code |-> get(search_results[i], "code", "")]]
      failed == test_result # None /\ ~get(test_result[1], "success", FALSE)
      error == IF failed THEN get(test_result[1], "error", "") ELSE ""
      stderr == IF failed THEN get(test_result[1], "stderr", "") ELSE ""
  IN     <<[piece |-> "request", request |-> prompt]>>
      \o (IF plan_text # <<>> THEN <<[piece |-> "plan", plan |-> plan_text]>> ELSE <<>>)
      \o (IF code_shots # <<>> THEN <<[piece |-> "examples_header"]>> \o examples ELSE <<>>)
      \o (IF search_results # <<>> THEN <<[piece |-> "snippets_header"]>> \o snippets
          ELSE <<>>)
      \o (IF failed
          THEN    <<[piece |-> "previous_errors"]>>
               \o (IF error # "" THEN <<[piece |-> "error", error |-> error]>> ELSE <<>>)
               \o (IF stderr # "" THEN <<[piece |-> "details", stderr |-> stderr]>>
                   ELSE <<>>)
               \o <<[piece |-> "fix_request"]>>
          ELSE <<>>)
      \o <<[piece |-> "format_instructions"]>>

\* ------------------------------------------------------------------------
\* TestCodeAction                                  (agent/actions/test_code.py)
\* ------------------------------------------------------------------------
\* node is what BashTool.execute("node --check <file>") returned
NodeOk == [success |-> TRUE, stderr |-> ""]
NodeSyntaxError == [success |-> FALSE, stderr |-> "SyntaxError: Unexpected token"]

check_syntax(node) ==
  IF node.success THEN [success |-> TRUE, message |-> "Syntax check passed"]
  ELSE [success |-> FALSE, message |-> "Syntax check failed", error |-> node.stderr]

\* the rules in the order in which they append to issues
validate_issues(code) ==
     (IF ~text_has(code, "import") THEN <<"Missing required import: entities">> ELSE <<>>)
  \o (IF ~text_has(code, "exports_rule") THEN <<"Missing exports.rule">> ELSE <<>>)
  \o (IF ~text_has(code, "title") THEN <<"Missing rule title">> ELSE <<>>)
  \o (IF ~text_has(code, "guard") THEN <<"Missing guard function">> ELSE <<>>)
  \o (IF ~text_has(code, "action") THEN <<"Missing action function">> ELSE <<>>)
  \o (IF text_has(code, "field_assignment") /\ ~text_has(code, "requirements")
      THEN <<"Setting field values but missing requirements section">> ELSE <<>>)
  \o (IF text_has(code, "while") /\ ~text_has(code, "break")
      THEN <<"Potential infinite loop: while loop without break statement">> ELSE <<>>)
  \o (IF text_has(code, "try") /\ ~text_has(code, "catch")
      THEN <<"Incomplete error handling: try without catch">> ELSE <<>>)

validate_code(code) ==
  LET issues == validate_issues(code)
  IN  IF issues # <<>>
      THEN [success |-> FALSE, message |-> "Validation failed", issues |-> issues]
      ELSE [success |-> TRUE, message |-> "Validation passed"]

\* success taken from the syntax check alone
test_execute_mut(code, node) ==
  LET syntax_result == check_syntax(node)
  IN  IF syntax_result.success
      THEN [success |-> syntax_result.success,
            syntax_check |-> syntax_result,
            validation |-> validate_code(code)]
      ELSE [success |-> FALSE,
            syntax_check |-> syntax_result,
            validation |-> [success |-> FALSE,
                            message |-> "Syntax check failed, skipping validation"]]

\* TestCodeAction.execute
test_execute(code, node) ==
  LET syntax_result == check_syntax(node)
  IN  IF syntax_result.success
      THEN LET validation_result == validate_code(code)
           IN  [success |-> validation_result.success,
                syntax_check |-> syntax_result,
                validation |-> validation_result]
      ELSE [success |-> FALSE,
            syntax_check |-> syntax_result,
            validation |-> [success |-> FALSE,
                            message |-> "Syntax check failed, skipping validation"]]

\* ------------------------------------------------------------------------
\* Memory                                                    (agent/memory.py)
\* ------------------------------------------------------------------------
\* current_session as built by Memory.__init__ (id and timestamp are fixed
\* for the life of the object and left out)
new_session ==
  [user_prompt |-> None, cot_result |-> None, clarification_questions |-> None,
   user_feedback |-> None, updated_prompt |-> None, plan |-> None,
   search_results |-> None, code_shots |-> None, generated_code |-> None,
   test_result |-> None, regenerated_code |-> None, final_test_result |-> None]

add_user_prompt(sess, p) == [sess EXCEPT !.user_prompt = Some(p)]
add_cot_result(sess, r) == [sess EXCEPT !.cot_result = Some(r)]
add_clarification_questions(sess, q) == [sess EXCEPT !.clarification_questions = Some(q)]
add_user_feedback(sess, f) == [sess EXCEPT !.user_feedback = Some(f)]
add_updated_prompt(sess, p) == [sess EXCEPT !.updated_prompt = Some(p)]
add_plan(sess, p) == [sess EXCEPT !.plan = Some(p)]
add_search_results(sess, r) == [sess EXCEPT !.search_results = Some(r)]
add_code_shots(sess, c) == [sess EXCEPT !.code_shots = Some(c)]

add_generated_code(sess, code, is_regenerated) ==
  IF is_regenerated THEN [sess EXCEPT !.regenerated_code = Some(code)]
  ELSE [sess EXCEPT !.generated_code = Some(code)]

\* every result stored as the final one
add_test_result_mut(sess, result) == [sess EXCEPT !.final_test_result = Some(result)]

add_test_result(sess, result) ==
  IF sess.test_result = None THEN [sess EXCEPT !.test_result = Some(result)]
  ELSE [sess EXCEPT !.final_test_result = Some(result)]

save_current_session_mut(old_file, sess) == old_file

\* _save_current_session: json.dump of current_session over the session file;
\* the file content is modelled by the document it decodes to
save_current_session(old_file, sess) == Some(sess)

\* A file of the storage directory is [name, content]; content is what
\* open and json.load make of it:
\* open or read fails (IOError), or the text is not JSON (JSONDecodeError)
FileNotJson == [kind |-> "not_json"]
\* the bytes cannot be decoded in the locale's encoding
FileUndecodable == [kind |-> "undecodable"]
\* JSON that is not an object: a list, a number, a string, null
FileOtherJson == [kind |-> "other_json"]
\* a session record; timestamp is the rank of its ISO text in string order
FileSession(id, timestamp) ==
  [kind |-> "session", session |-> [id |-> id, timestamp |-> timestamp]]

S_session_prefix == <<"s", "e", "s", "s", "i", "o", "n", "_">>
S_json == <<".", "j", "s", "o", "n">>

\* the loop over os.listdir: the documents loaded, or the exception of the
\* first file whose bytes cannot be decoded; strict: the locale's encoding
\* rejects such bytes (UnicodeDecodeError), otherwise the text read is not JSON
RECURSIVE load_files(_, _)
load_files(files, strict) ==
  IF files = <<>> THEN [loaded |-> <<>>]
  ELSE LET f == Head(files)
           rest == load_files(Tail(files), strict)
       IN  IF ~(startswith(f.name, S_session_prefix) /\ endswith(f.name, S_json))
           THEN rest
           ELSE IF f.content.kind = "not_json" THEN rest
           ELSE IF f.content.kind = "undecodable"
                THEN IF strict THEN Raise ELSE rest
           ELSE IF Raised(rest) THEN rest
           ELSE [loaded |-> <<f.content>> \o rest.loaded]

\* s put into a list sorted by descending timestamp, behind its equals
insert_by_timestamp(sorted, s) ==
  LET k == Cardinality({i \in 1..Len(sorted) : sorted[i].timestamp >= s.timestamp})
  IN  SubSeq(sorted, 1, k) \o <<s>> \o SubSeq(sorted, k + 1, Len(sorted))

RECURSIVE sort_by_timestamp_from(_, _)
sort_by_timestamp_from(sorted, sessions) ==
  IF sessions = <<>> THEN sorted
  ELSE sort_by_timestamp_from(insert_by_timestamp(sorted, Head(sessions)), Tail(sessions))

\* _load_previous_sessions: the key of the sort calls s.get on every loaded
\* document, which raises AttributeError on a document that is not an object
load_previous_sessions(files, strict) ==
  LET r == load_files(files, strict)
  IN  IF Raised(r) THEN r
      ELSE IF \E i \in 1..Len(r.loaded) : r.loaded[i].kind # "session" THEN Raise
      ELSE [previous_sessions |->
              sort_by_timestamp_from(<<>>, [i \in 1..Len(r.loaded) |-> r.loaded[i].session])]

\* Memory.__init__: the memory, or the exception that leaves the constructor
memory_init(files, strict) ==
  LET r == load_previous_sessions(files, strict)
  IN  IF Raised(r) THEN r
      ELSE [current_session |-> new_session, previous_sessions |-> r.previous_sessions]

\* A reading of datetime.now(): whole seconds and the microseconds within
\* the second.
\* strftime("%Y%m%d%H%M%S"): the digits of the whole seconds; the
\* microseconds are not part of the text
strftime(now) == <<<<"0", "1", "2", "3">>[now.second + 1]>>

\* isoformat(): seconds and microseconds; the text is modelled by its rank
\* in string order
isoformat(now) == 2 * now.second + now.micro

\* current_session as built by Memory.__init__ at the reading now, id and
\* timestamp included (the two calls of now() are taken as one reading)
session_at(now) ==
  [id |-> strftime(now), timestamp |-> isoformat(now)] @@ new_session

\* the path of _save_current_session, within the storage directory
session_file(sess) == S_session_prefix \o sess.id \o S_json

\* _save_current_session on a storage directory: open(session_file, "w")
\* replaces the file of that name or creates it
save_to_directory(files, sess) ==
  LET doc == [name |-> session_file(sess),
              content |-> [kind |-> "session", session |-> sess]]
  IN  IF \E i \in 1..Len(files) : files[i].name = doc.name
      THEN [i \in 1..Len(files) |-> IF files[i].name = doc.name THEN doc ELSE files[i]]
      ELSE Append(files, doc)

\* Memory.__init__ at the reading now on a storage directory
memory_at(now, files, strict) ==
  LET r == load_previous_sessions(files, strict)
  IN  IF Raised(r) THEN r
      ELSE [current_session |-> session_at(now),
            previous_sessions |-> r.previous_sessions]

\* ------------------------------------------------------------------------
\* RetrieveCodeShotsTool                    (agent/tools/retrieve_code_shots.py)
\* ------------------------------------------------------------------------
\* A code shot is [id, title, description, tags]; its "code" text is not read
\* by the search and is left out.

\* str.split(): the maximal runs of characters that are not whitespace
RECURSIVE split_ws(_)
split_ws(s) ==
  LET t == lstrip(s)
  IN  IF t = <<>> THEN <<>>
      ELSE LET spaces == {i \in 1..Len(t) : IsSpace(t[i])}
               n == IF spaces = {} THEN Len(t)
                    ELSE (CHOOSE i \in spaces : \A j \in spaces : i <= j) - 1
           IN  <<SubSeq(t, 1, n)>> \o split_ws(SubSeq(t, n + 1, Len(t)))

\* the distinct terms that occur in the text
count_terms_in_mut(terms, text) ==
  Cardinality({terms[i] : i \in {k \in 1..Len(terms) : contains(text, terms[k])}})

\* sum(1 for term in terms if term in text)
RECURSIVE count_terms_in(_, _)
count_terms_in(terms, text) ==
  IF terms = <<>> THEN 0
  ELSE (IF contains(text, Head(terms)) THEN 1 ELSE 0) + count_terms_in(Tail(terms), text)

\* the loop over tags: the tags whose lowercased text occurs in the query
RECURSIVE count_tags_in(_, _)
count_tags_in(tags, query) ==
  IF tags = <<>> THEN 0
  ELSE (IF contains(query, lower(Head(tags))) THEN 1 ELSE 0) + count_tags_in(Tail(tags), query)

W_title == 3
W_description == 1
W_tag == 2

shot_relevance_mut(code_shot, query) ==
  LET query_terms == split_ws(query)
  IN  W_title * count_terms_in(query_terms, lower(code_shot.title))
      + W_description * count_terms_in(query_terms, lower(code_shot.description))
      + (IF count_tags_in(code_shot.tags, query) > 0 THEN W_tag ELSE 0)

\* the relevance score of one code shot; query is already lowercased
shot_relevance(code_shot, query) ==
  LET query_terms == split_ws(query)
  IN  W_title * count_terms_in(query_terms, lower(code_shot.title))
      + W_description * count_terms_in(query_terms, lower(code_shot.description))
      + W_tag * count_tags_in(code_shot.tags, query)

\* result = code_shot.copy(); result["relevance"] = relevance
with_relevance(code_shot, relevance) ==
  [id |-> code_shot.id, title |-> code_shot.title,
   description |-> code_shot.description, tags |-> code_shot.tags,
   relevance |-> relevance]

\* the loop over self.code_shots
RECURSIVE relevant_shots(_, _)
relevant_shots(code_shots, query) ==
  IF code_shots = <<>> THEN <<>>
  ELSE LET relevance == shot_relevance(Head(code_shots), query)
           rest == relevant_shots(Tail(code_shots), query)
       IN  IF relevance > 0 THEN <<with_relevance(Head(code_shots), relevance)>> \o rest
           ELSE rest

insert_by_relevance_mut(sorted, r) ==
  LET k == Cardinality({i \in 1..Len(sorted) : sorted[i].relevance > r.relevance})
  IN  SubSeq(sorted, 1, k) \o <<r>> \o SubSeq(sorted, k + 1, Len(sorted))

\* r put into a list sorted by descending relevance, behind its equals
insert_by_relevance(sorted, r) ==
  LET k == Cardinality({i \in 1..Len(sorted) : sorted[i].relevance >= r.relevance})
  IN  SubSeq(sorted, 1, k) \o <<r>> \o SubSeq(sorted, k + 1, Len(sorted))

\* results.sort(key=lambda r: r.get("relevance", 0), reverse=True): list.sort
\* is stable, also with reverse=True
RECURSIVE sort_by_relevance_from(_, _)
sort_by_relevance_from(sorted, results) ==
  IF results = <<>> THEN sorted
  ELSE sort_by_relevance_from(insert_by_relevance(sorted, Head(results)), Tail(results))

\* the sort without reverse=True: ascending
sort_by_relevance_mut(results) ==
  LET sorted == sort_by_relevance_from(<<>>, results)
  IN  [i \in 1..Len(sorted) |-> sorted[Len(sorted) + 1 - i]]

sort_by_relevance(results) == sort_by_relevance_from(<<>>, results)

\* RetrieveCodeShotsTool.execute
retrieve_execute(code_shots, query) ==
  sort_by_relevance(relevant_shots(code_shots, lower(query)))

\* _get_default_database
default_database ==
  <<
    [id |-> "auto_assign_critical",
     title |-> <<"A", "u", "t", "o", "-", "a", "s", "s", "i", "g", "n", " ", "c", "r", "i", "t", "i", "c", "a",
        "l", " ", "i", "s", "s", "u", "e", "s", " ", "t", "o", " ", "t", "e", "a", "m", " ", "l", "e",
        "a", "d">>,
     description |-> <<"A", "u", "t", "o", "m", "a", "t", "i", "c", "a", "l", "l", "y", " ", "a", "s", "s", "i", "g",
        "n", "s", " ", "i", "s", "s", "u", "e", "s", " ", "w", "i", "t", "h", " ", "C", "r", "i", "t",
        "i", "c", "a", "l", " ", "p", "r", "i", "o", "r", "i", "t", "y", " ", "t", "o", " ", "t", "h",
        "e", " ", "t", "e", "a", "m", " ", "l", "e", "a", "d">>,
     tags |-> <<<<"a", "u", "t", "o", "-", "a", "s", "s", "i", "g", "n">>,
              <<"p", "r", "i", "o", "r", "i", "t", "y">>,
              <<"c", "r", "i", "t", "i", "c", "a", "l">>,
              <<"t", "e", "a", "m", " ", "l", "e", "a", "d">>>>],
    [id |-> "auto_set_due_date",
     title |-> <<"A", "u", "t", "o", "-", "s", "e", "t", " ", "d", "u", "e", " ", "d", "a", "t", "e", " ", "b",
        "a", "s", "e", "d", " ", "o", "n", " ", "p", "r", "i", "o", "r", "i", "t", "y">>,
     description |-> <<"A", "u", "t", "o", "m", "a", "t", "i", "c", "a", "l", "l", "y", " ", "s", "e", "t", "s", " ",
        "a", " ", "d", "u", "e", " ", "d", "a", "t", "e", " ", "b", "a", "s", "e", "d", " ", "o", "n",
        " ", "t", "h", "e", " ", "i", "s", "s", "u", "e", "'", "s", " ", "p", "r", "i", "o", "r", "i",
        "t", "y">>,
     tags |-> <<<<"d", "u", "e", " ", "d", "a", "t", "e">>,
              <<"p", "r", "i", "o", "r", "i", "t", "y">>,
              <<"d", "e", "a", "d", "l", "i", "n", "e">>>>],
    [id |-> "notify_on_comment",
     title |-> <<"N", "o", "t", "i", "f", "y", " ", "m", "e", "n", "t", "i", "o", "n", "e", "d", " ", "u", "s",
        "e", "r", "s", " ", "i", "n", " ", "c", "o", "m", "m", "e", "n", "t", "s">>,
     description |-> <<"S", "e", "n", "d", "s", " ", "n", "o", "t", "i", "f", "i", "c", "a", "t", "i", "o", "n", "s",
        " ", "t", "o", " ", "u", "s", "e", "r", "s", " ", "m", "e", "n", "t", "i", "o", "n", "e", "d",
        " ", "i", "n", " ", "c", "o", "m", "m", "e", "n", "t", "s", " ", "u", "s", "i", "n", "g", " ",
        "@", "u", "s", "e", "r", "n", "a", "m", "e", " ", "s", "y", "n", "t", "a", "x">>,
     tags |-> <<<<"n", "o", "t", "i", "f", "i", "c", "a", "t", "i", "o", "n">>,
              <<"c", "o", "m", "m", "e", "n", "t">>,
              <<"m", "e", "n", "t", "i", "o", "n">>,
              <<"@", "m", "e", "n", "t", "i", "o", "n">>>>],
    [id |-> "auto_add_tag",
     title |-> <<"A", "u", "t", "o", "-", "a", "d", "d", " ", "t", "a", "g", "s", " ", "b", "a", "s", "e", "d",
        " ", "o", "n", " ", "d", "e", "s", "c", "r", "i", "p", "t", "i", "o", "n">>,
     description |-> <<"A", "u", "t", "o", "m", "a", "t", "i", "c", "a", "l", "l", "y", " ", "a", "d", "d", "s", " ",
        "t", "a", "g", "s", " ", "t", "o", " ", "i", "s", "s", "u", "e", "s", " ", "b", "a", "s", "e",
        "d", " ", "o", "n", " ", "k", "e", "y", "w", "o", "r", "d", "s", " ", "i", "n", " ", "t", "h",
        "e", " ", "d", "e", "s", "c", "r", "i", "p", "t", "i", "o", "n">>,
     tags |-> <<<<"t", "a", "g">>,
              <<"a", "u", "t", "o", "-", "t", "a", "g">>,
              <<"k", "e", "y", "w", "o", "r", "d">>,
              <<"d", "e", "s", "c", "r", "i", "p", "t", "i", "o", "n">>>>],
    [id |-> "state_transition",
     title |-> <<"S", "t", "a", "t", "e", " ", "t", "r", "a", "n", "s", "i", "t", "i", "o", "n", " ", "w", "o",
        "r", "k", "f", "l", "o", "w">>,
     description |-> <<"I", "m", "p", "l", "e", "m", "e", "n", "t", "s", " ", "a", " ", "s", "t", "a", "t", "e", " ",
        "m", "a", "c", "h", "i", "n", "e", " ", "f", "o", "r", " ", "i", "s", "s", "u", "e", " ", "s",
        "t", "a", "t", "e", "s", " ", "w", "i", "t", "h", " ", "v", "a", "l", "i", "d", "a", "t", "i",
        "o", "n", " ", "r", "u", "l", "e", "s">>,
     tags |-> <<<<"s", "t", "a", "t", "e">>,
              <<"t", "r", "a", "n", "s", "i", "t", "i", "o", "n">>,
              <<"w", "o", "r", "k", "f", "l", "o", "w">>,
              <<"v", "a", "l", "i", "d", "a", "t", "i", "o", "n">>>>]
  >>

\* the corpus file named by database_path, as __init__ finds it
DbNoPath == [kind |-> "no_path"]
DbMissing == [kind |-> "missing"]
\* open or read fails (IOError), or the text is not JSON (JSONDecodeError)
DbUnreadable == [kind |-> "unreadable"]
\* the bytes are not UTF-8: f.read() raises UnicodeDecodeError
DbUndecodable == [kind |-> "undecodable"]
\* the list of records json.load returns
DbContent(c) == [kind |-> "content", content |-> c]

\* RetrieveCodeShotsTool.__init__ and _initialize_database: the tool, or the
\* exception that leaves the constructor
initialize_database(database) ==
  IF database.kind \in {"no_path", "missing"} THEN [code_shots |-> default_database]
  ELSE IF database.kind = "content" THEN [code_shots |-> database.content]
  ELSE IF database.kind = "unreadable" THEN [code_shots |-> default_database]
  ELSE Raise

\* ------------------------------------------------------------------------
\* SearchCodeTool                                 (agent/tools/search_code.py)
\* ------------------------------------------------------------------------
\* The API directory is missing, or it is a tree: the files os.walk yields,
\* in walk order, each [path, lines] with lines = content.split("\n").
DirMissing == [kind |-> "missing"]
DirTree(files) == [kind |-> "tree", files |-> files]

S_js == <<".", "j", "s">>
S_comment_open == <<"/", "*", "*">>
S_comment_close == <<"*", "/">>

\* SearchCodeTool.__init__: ValueError when the directory does not exist
search_init(api_dir) ==
  IF api_dir.kind = "missing" THEN Raise
  ELSE [api_dir |-> api_dir.files, file_cache |-> <<>>]

\* _get_js_files
get_js_files(files) == SelectSeq(files, LAMBDA f : endswith(f.path, S_js))

\* lines[a:b], a and b counted from 0
slice(lines, a, b) == SubSeq(lines, a + 1, b)

\* one iteration of the loop of _search_file, i counted from 0;
\* st = [results, current_block, current_block_start, in_comment_block]
search_line(st, path, lines, query_terms, i) ==
  LET line == lines[i + 1]
      line_lower == lower(line)
      closed == Append(st.current_block, line)
      block_relevance == count_terms_in(query_terms, lower(join_lines(closed)))
      block_result ==
        [file |-> path, file_path |-> path, line |-> st.current_block_start + 1,
         code |-> closed \o slice(lines, i + 1, Min(i + 11, Len(lines))),
         relevance |-> block_relevance, type |-> "comment_with_code"]
      st1 ==
        IF contains(line, S_comment_open)
        THEN [st EXCEPT !.in_comment_block = TRUE, !.current_block = <<line>>,
                        !.current_block_start = i]
        ELSE IF contains(line, S_comment_close) /\ st.in_comment_block
        THEN [st EXCEPT !.in_comment_block = FALSE, !.current_block = <<>>,
                        !.results = IF block_relevance > 0
                                    THEN Append(@, block_result) ELSE @]
        ELSE IF st.in_comment_block
        THEN [st EXCEPT !.current_block = Append(@, line)]
        ELSE st
      relevance == count_terms_in(query_terms, line_lower)
      line_result ==
        [file |-> path, file_path |-> path, line |-> i + 1,
         code |-> slice(lines, Max(0, i - 5), Min(Len(lines), i + 6)),
         relevance |-> relevance, type |-> "code"]
  IN  IF relevance > 0 /\ ~st1.in_comment_block
      THEN [st1 EXCEPT !.results = Append(@, line_result)]
      ELSE st1

RECURSIVE search_lines(_, _, _, _, _)
search_lines(st, path, lines, query_terms, i) ==
  IF i >= Len(lines) THEN st
  ELSE search_lines(search_line(st, path, lines, query_terms, i),
                    path, lines, query_terms, i + 1)

\* _search_file: the results of one file
search_file(f, query) ==
  search_lines([results |-> <<>>, current_block |-> <<>>,
                current_block_start |-> 0, in_comment_block |-> FALSE],
               f.path, f.lines, split_ws(lower(query)), 0).results

\* the loop over js_files: results.extend(file_results)
RECURSIVE search_files(_, _)
search_files(files, query) ==
  IF files = <<>> THEN <<>>
  ELSE search_file(Head(files), query) \o search_files(Tail(files), query)

\* SearchCodeTool.execute
search_execute(files, query) ==
  sort_by_relevance(search_files(get_js_files(files), lower(query)))

\* file_cache after execute: the content of every file searched
cache_after(file_cache, files) ==
  LET js == get_js_files(files)
      paths == {js[i].path : i \in 1..Len(js)}
  IN  [p \in (DOMAIN file_cache) \cup paths |->
         IF p \in DOMAIN file_cache THEN file_cache[p]
         ELSE js[CHOOSE i \in 1..Len(js) : js[i].path = p].lines]

\* ------------------------------------------------------------------------
\* Inputs: LLM responses, user answers, checker outcomes
\* ------------------------------------------------------------------------
L_reasoning == <<"R", "e", "a", "s", "o", "n", "i", "n", "g", ":", " ", "o", "k">>
L_steps == <<"S", "t", "e", "p", "s", ":">>
L_missing == <<" ", " ", "M", "i", "s", "s", "i", "n", "g", " ", "I", "n", "f", "o", "r", "m", "a", "t", "i", "o", "n", ":">>
L_ambig == <<"a", "m", "b", "i", "g", "u", "i", "t", "i", "e", "s", ":">>
L_ncYes == <<"N", "e", "e", "d", "s", " ", "C", "l", "a", "r", "i", "f", "i", "c", "a", "t", "i", "o", "n", ":", " ", "Y", "e", "s">>
L_ncNo == <<"n", "e", "e", "d", "s", " ", "c", "l", "a", "r", "i", "f", "i", "c", "a", "t", "i", "o", "n", ":", " ", "N", "o">>
L_num == <<"1", ".", " ", "a">>
L_bul == <<"-", " ", "b">>
L_plain == <<"c", " ", "d">>
L_empty == <<>>
L_question == <<"1", ".", " ", "W", "h", "i", "c", "h", " ", "f", "i", "e", "l", "d", "?">>
L_plan == <<"P", "l", "a", "n", ":", " ", "s", "e", "t", " ", "a", "s", "s", "i", "g", "n", "e", "e">>
L_components == <<"C", "o", "m", "p", "o", "n", "e", "n", "t", "s", ":">>
L_guard == <<"-", " ", "g", "u", "a", "r", "d">>
A_no == <<"n", "o">>
A_lead == <<"t", "e", "a", "m", " ", "l", "e", "a", "d">>

L_import == "const entities = require('@jetbrains/youtrack-scripting-api/entities');"
L_rule == "exports.rule = entities.Issue.onChange({ title: 'Assign', guard: (ctx) => true, action: (ctx) => {}, requirements: {} });"
L_rule_noguard == "exports.rule = entities.Issue.onChange({ title: 'Assign', action: (ctx) => {}, requirements: {} });"

\* longest reasoning response of the parser specification, in lines
MaxLines == 3

CotLines == {L_reasoning, L_steps, L_missing, L_ambig, L_ncYes, L_ncNo,
             L_num, L_bul, L_plain, L_empty}

SeqsUpTo(S, n) == UNION {[1..k -> S] : k \in 0..n}

\* reasoning responses the orchestrator runs see
R_clear == <<L_reasoning, L_steps, L_num, L_ncNo>>
R_gaps == <<L_reasoning, L_missing, L_bul, L_ncNo>>
CotReplies == {ReplyException, ReplyNoChoices, ReplyContent(R_clear), ReplyContent(R_gaps)}

ClarifyReplies == {ReplyException, ReplyContent(<<L_question>>)}
Answers == {A_no, A_lead}
PlanReplies == {ReplyException, ReplyContent(<<L_plan, L_components, L_guard>>)}

G_fenced == <<"Here is the script:", "FENCEjavascript", L_import, L_rule, "FENCE">>
G_noguard == <<L_import, L_rule_noguard>>
GenerateReplies == {ReplyException, ReplyNoChoices,
                    ReplyContent(G_fenced), ReplyContent(G_noguard)}

NodeOutcomes == {NodeOk, NodeSyntaxError}

\* what the source-tree search and the corpus search return for the request
SearchOutcomes == {<<>>,
                   <<[file |-> "entities.js", code |-> "Issue.onChange", relevance |-> 1]>>}
ShotOutcomes == {<<[id |-> "auto_assign_critical", relevance |-> 3]>>}

\* the request typed by the user, and the request main builds from the
\* requested changes
P_request == <<[piece |-> "request"]>>
P_updated == P_request \o <<[piece |-> "additional_requirements"]>>

\* ------------------------------------------------------------------------
\* State
\* ------------------------------------------------------------------------
VARIABLES
  pc,                       \* position in main / generate_workflow_script
  runs,                     \* calls of generate_workflow_script made by main
  prompt, cot_result, clarification_questions, user_feedback, plan,
  search_results, code_shots, generated_code, test_result,
                            \* locals of generate_workflow_script (None: unbound)
  session,                  \* Memory.current_session of the agent
  file,                     \* the session file in the storage directory
  stages,                   \* history: stages performed in this run
  llm_replies,              \* history: [stage, reply] of the LLM calls of this run,
                            \* with the prompt sent by the planning and generation calls
  gen_calls,                \* history: calls of generate_code_tool.execute
  validated,                \* history: [code, result] per test_code_action.execute
  returned,                 \* history: value returned by this run
  response, parsed,         \* input and output of the component a component
                            \* specification runs on its own
  tool                      \* the component constructed from the input (None:
                            \* not constructed)

locals == <<prompt, cot_result, clarification_questions, user_feedback, plan,
            search_results, code_shots, generated_code, test_result>>
history == <<stages, llm_replies, gen_calls, validated, returned>>
vars == <<pc, runs, locals, session, file, history, response, parsed, tool>>

\* Memory method followed by its _save_current_session
Store(sess) ==
  /\ session' = sess
  /\ file' = save_current_session(file, sess)

\* an exception leaves generate_workflow_script
Propagate ==
  /\ pc' = "raised"
  /\ UNCHANGED <<runs, locals, session, file, history, response, parsed, tool>>

should_regenerate_mut(result) == FALSE

\* if not test_result.get("success", False)
should_regenerate(result) == ~result.success

Init ==
  /\ pc = "idle"
  /\ runs = 0
  /\ prompt = None /\ cot_result = None /\ clarification_questions = None
  /\ user_feedback = None /\ plan = None /\ search_results = None
  /\ code_shots = None /\ generated_code = None /\ test_result = None
  /\ session = new_session
  /\ file = None
  /\ stages = <<>> /\ llm_replies = <<>> /\ gen_calls = 0 /\ validated = <<>>
  /\ returned = None
  /\ response = <<>> /\ parsed = None /\ tool = None

\* ------------------------------------------------------------------------
\* main and YouTrackWorkflowAgent.generate_workflow_script
\* ------------------------------------------------------------------------
\* entry of generate_workflow_script(p): a new frame, memory.add_user_prompt
Begin(p) ==
  /\ prompt' = Some(p)
  /\ cot_result' = None /\ clarification_questions' = None
  /\ user_feedback' = None /\ plan' = None /\ search_results' = None
  /\ code_shots' = None /\ generated_code' = None /\ test_result' = None
  /\ Store(add_user_prompt(session, p))
  /\ stages' = <<>> /\ llm_replies' = <<>> /\ gen_calls' = 0 /\ validated' = <<>>
  /\ returned' = None
  /\ runs' = runs + 1
  /\ pc' = "reason"
  /\ UNCHANGED <<response, parsed, tool>>

\* main: agent.generate_workflow_script(prompt)
Main_generate ==
  /\ pc = "idle" /\ runs = 0
  /\ Begin(P_request)

\* main, interactive: the user is not satisfied and requests changes
Main_regenerate ==
  /\ pc = "done" /\ runs = 1
  /\ Begin(P_updated)

Reason ==
  /\ pc = "reason"
  /\ \E reply \in CotReplies :
       LET result == llm_execute(reply) IN
       IF Raised(result) THEN Propagate
       ELSE LET r == cot_execute(prompt[1], result) IN
            /\ cot_result' = Some(r)
            /\ Store(add_cot_result(session, r))
            /\ stages' = Append(stages, "REASON")
            /\ llm_replies' = Append(llm_replies, [stage |-> "REASON", reply |-> reply])
            /\ pc' = IF needs_clarification(r) THEN "clarify" ELSE "plan"
            /\ UNCHANGED <<runs, prompt, clarification_questions, user_feedback, plan,
                           search_results, code_shots, generated_code, test_result,
                           gen_calls, validated, returned, response, parsed, tool>>

ClarifyAsk ==
  /\ pc = "clarify"
  /\ \E reply \in ClarifyReplies :
       LET result == llm_execute(reply) IN
       IF Raised(result) THEN Propagate
       ELSE LET q == ask_clarification_execute(cot_result[1], result) IN
            /\ clarification_questions' = Some(q)
            /\ Store(add_clarification_questions(session, q))
            /\ stages' = Append(stages, "CLARIFY")
            /\ llm_replies' = Append(llm_replies, [stage |-> "CLARIFY", reply |-> reply])
            /\ pc' = "collect"
            /\ UNCHANGED <<runs, prompt, cot_result, user_feedback, plan,
                           search_results, code_shots, generated_code, test_result,
                           gen_calls, validated, returned, response, parsed, tool>>

ClarifyCollect ==
  /\ pc = "collect"
  /\ \E answers \in [1..Len(clarification_questions[1]) -> Answers] :
       LET f == get_clarification(clarification_questions[1], answers) IN
       /\ user_feedback' = Some(f)
       /\ Store(add_user_feedback(session, f))
  /\ pc' = "fold"
  /\ UNCHANGED <<runs, prompt, cot_result, clarification_questions, plan,
                 search_results, code_shots, generated_code, test_result,
                 history, response, parsed, tool>>

ClarifyFold ==
  /\ pc = "fold"
  /\ LET p == update_prompt_with_clarification(prompt[1], user_feedback[1]) IN
       /\ prompt' = Some(p)
       /\ Store(add_updated_prompt(session, p))
  /\ pc' = "plan"
  /\ UNCHANGED <<runs, cot_result, clarification_questions, user_feedback, plan,
                 search_results, code_shots, generated_code, test_result,
                 history, response, parsed, tool>>

Plan ==
  /\ pc = "plan"
  /\ \E reply \in PlanReplies :
       LET result == llm_execute(reply) IN
       IF Raised(result) THEN Propagate
       ELSE LET r == plan_execute(prompt[1], result) IN
            /\ plan' = Some(r)
            /\ Store(add_plan(session, r))
            /\ stages' = Append(stages, "PLAN")
            /\ llm_replies' = Append(llm_replies,
                 [stage |-> "PLAN", reply |-> reply,
                  \* self.plan_strategy.execute(prompt): cot_result is not passed
                  prompt |-> create_plan_prompt(prompt[1], None)])
            /\ pc' = "search"
            /\ UNCHANGED <<runs, prompt, cot_result, clarification_questions,
                           user_feedback, search_results, code_shots, generated_code,
                           test_result, gen_calls, validated, returned,
                           response, parsed, tool>>

SearchCode ==
  /\ pc = "search"
  /\ \E r \in SearchOutcomes :
       /\ search_results' = Some(r)
       /\ Store(add_search_results(session, r))
  /\ stages' = Append(stages, "RETRIEVE")
  /\ pc' = "retrieve"
  /\ UNCHANGED <<runs, prompt, cot_result, clarification_questions, user_feedback,
                 plan, code_shots, generated_code, test_result,
                 llm_replies, gen_calls, validated, returned, response, parsed, tool>>

RetrieveCodeShots ==
  /\ pc = "retrieve"
  /\ \E r \in ShotOutcomes :
       /\ code_shots' = Some(r)
       /\ Store(add_code_shots(session, r))
  /\ pc' = "generate"
  /\ UNCHANGED <<runs, prompt, cot_result, clarification_questions, user_feedback,
                 plan, search_results, generated_code, test_result,
                 history, response, parsed, tool>>

\* generate_code_tool.execute and memory.add_generated_code
GenerateStep(stage, is_regenerated, next_pc) ==
  \E reply \in GenerateReplies :
    LET result == llm_generate_code(reply) IN
    IF Raised(result) THEN Propagate
    ELSE LET code == generate_execute(result) IN
         /\ generated_code' = Some(code)
         /\ Store(add_generated_code(session, code, is_regenerated))
         /\ stages' = Append(stages, stage)
         /\ llm_replies' = Append(llm_replies,
              [stage |-> stage, reply |-> reply,
               prompt |-> create_detailed_prompt(prompt[1], search_results[1],
                            code_shots[1], plan[1],
                            IF is_regenerated THEN test_result ELSE None)])
         /\ gen_calls' = gen_calls + 1
         /\ pc' = next_pc
         /\ UNCHANGED <<runs, prompt, cot_result, clarification_questions,
                        user_feedback, plan, search_results, code_shots, test_result,
                        validated, returned, response, parsed, tool>>

\* test_code_action.execute and memory.add_test_result
TestStep(stage, node) ==
  LET r == test_execute(generated_code[1], node) IN
  /\ test_result' = Some(r)
  /\ Store(add_test_result(session, r))
  /\ stages' = Append(stages, stage)
  /\ validated' = Append(validated, [code |-> generated_code[1], result |-> r])
  /\ UNCHANGED <<runs, prompt, cot_result, clarification_questions, user_feedback,
                 plan, search_results, code_shots, generated_code,
                 llm_replies, gen_calls, response, parsed, tool>>

Generate ==
  /\ pc = "generate"
  /\ GenerateStep("GENERATE", FALSE, "validate")

\* the first test; a success returns generated_code
Validate ==
  /\ pc = "validate"
  /\ \E node \in NodeOutcomes :
       /\ TestStep("VALIDATE", node)
       /\ IF should_regenerate(test_execute(generated_code[1], node))
          THEN pc' = "regenerate" /\ returned' = returned
          ELSE pc' = "done" /\ returned' = generated_code

Regenerate ==
  /\ pc = "regenerate"
  /\ GenerateStep("REGENERATE", TRUE, "revalidate")

\* the second test; generated_code is returned whatever the result
Revalidate ==
  /\ pc = "revalidate"
  /\ \E node \in NodeOutcomes : TestStep("REVALIDATE", node)
  /\ pc' = "done"
  /\ returned' = generated_code

Pipeline ==
  \/ Reason \/ ClarifyAsk \/ ClarifyCollect \/ ClarifyFold \/ Plan
  \/ SearchCode \/ RetrieveCodeShots
  \/ Generate \/ Validate \/ Regenerate \/ Revalidate

Next == Main_generate \/ Main_regenerate \/ Pipeline

Spec == Init /\ [][Next]_vars

\* a started run is a sequential program: its next statement is executed
FairSpec == Spec /\ WF_vars(Pipeline)

\* ------------------------------------------------------------------------
\* The reasoning parser on its own: every response of up to MaxLines lines
\* ------------------------------------------------------------------------
InitCot ==
  /\ pc = "idle"
  /\ runs = 0
  /\ prompt = None /\ cot_result = None /\ clarification_questions = None
  /\ user_feedback = None /\ plan = None /\ search_results = None
  /\ code_shots = None /\ generated_code = None /\ test_result = None
  /\ session = new_session
  /\ file = None
  /\ stages = <<>> /\ llm_replies = <<>> /\ gen_calls = 0 /\ validated = <<>>
  /\ returned = None
  /\ response \in SeqsUpTo(CotLines, MaxLines)
  /\ parsed = None /\ tool = None

ParseCot ==
  /\ parsed = None
  /\ parsed' = Some(parse_cot_result(response))
  /\ UNCHANGED <<pc, runs, locals, session, file, history, response, tool>>

NextCot == ParseCot

SpecCot == InitCot /\ [][NextCot]_vars

\* the orchestrator before main has called it
Unstarted ==
  /\ pc = "idle"
  /\ runs = 0
  /\ prompt = None /\ cot_result = None /\ clarification_questions = None
  /\ user_feedback = None /\ plan = None /\ search_results = None
  /\ code_shots = None /\ generated_code = None /\ test_result = None
  /\ session = new_session
  /\ file = None
  /\ stages = <<>> /\ llm_replies = <<>> /\ gen_calls = 0 /\ validated = <<>>
  /\ returned = None
  /\ tool = None

\* ------------------------------------------------------------------------
\* The clarification stage on its own: every outcome of its LLM call with a
\* response of up to MaxAskLines lines
\* ------------------------------------------------------------------------
K_mark == <<"W", "h", "o", "?">>
K_padded == <<" ", "o", "k", " ">>
K_blank == <<" ">>
K_bare_number == <<"1", ".">>

\* longest clarification response, in lines
MaxAskLines == 3

AskLines == {L_question, K_mark, L_plain, K_padded, L_empty, K_blank, K_bare_number}

AskReplies ==
  {ReplyException, ReplyNoChoices}
    \cup {ReplyContent(c) : c \in SeqsUpTo(AskLines, MaxAskLines) \ {<<>>}}

InitAsk ==
  /\ Unstarted
  /\ response \in AskReplies
  /\ parsed = None

\* AskClarificationAction.execute on the record of a failed reasoning call
AskClarification ==
  /\ parsed = None
  /\ parsed' = Some(ask_clarification_execute(cot_failure_result(E_exception, P_request),
                                              llm_execute(response)))
  /\ UNCHANGED <<pc, runs, locals, session, file, history, response, tool>>

NextAsk == AskClarification

SpecAsk == InitAsk /\ [][NextAsk]_vars

\* ------------------------------------------------------------------------
\* The fold-back of the answers on its own: every list of up to MaxAnswers
\* answers
\* ------------------------------------------------------------------------
A_yes == <<"y", "e", "s">>
A_ok_padded == <<" ", " ", "o", "k", " ", " ">>
A_None == <<"N", "o", "n", "e">>
A_none_padded == <<" ", "n", "o", "n", "e", " ">>
A_na == <<"N", "/", "A">>
A_abc == <<"a", "b", "c">>

\* most answers folded back at once
MaxAnswers == 3

FoldAnswers == {A_yes, A_no, A_ok_padded, A_None, A_none_padded, A_na, A_abc, A_lead}

InitFold ==
  /\ Unstarted
  /\ response \in SeqsUpTo(FoldAnswers, MaxAnswers)
  /\ parsed = None

\* get_clarification on as many questions as answers, then the fold-back
FoldBack ==
  /\ parsed = None
  /\ LET questions == [i \in 1..Len(response) |-> L_question]
     IN  parsed' = Some(update_prompt_with_clarification(
                          P_request, get_clarification(questions, response)))
  /\ UNCHANGED <<pc, runs, locals, session, file, history, response, tool>>

NextFold == FoldBack

SpecFold == InitFold /\ [][NextFold]_vars

\* ------------------------------------------------------------------------
\* The two retrieval components on their own: construction from what is on
\* disk, then one query
\* ------------------------------------------------------------------------
S_assign ==
  [id |-> "s_assign", title |-> <<"A", "s", "s", "i", "g", "n", " ", "l", "e", "a", "d">>,
   description |-> <<"a", "s", "s", "i", "g", "n">>,
   tags |-> <<<<"l", "e", "a", "d">>, <<"A", "s", "s", "i", "g", "n">>>>]
S_due ==
  [id |-> "s_due", title |-> <<"D", "u", "e", " ", "d", "a", "t", "e">>,
   description |-> <<"a", "s", "s", "i", "g", "n", " ", "d", "u", "e">>,
   tags |-> <<<<"d", "u", "e", " ", "d", "a", "t", "e">>>>]
S_desc ==
  [id |-> "s_desc", title |-> <<>>,
   description |-> <<"l", "e", "a", "d", " ", "d", "a", "t", "e">>,
   tags |-> <<>>]
S_tag ==
  [id |-> "s_tag", title |-> <<"x">>,
   description |-> <<"y">>,
   tags |-> <<<<"a">>>>]

Q_scenario == <<"a", "u", "t", "o", "-", "a", "s", "s", "i", "g", "n", " ", "c", "r", "i", "t", "i", "c", "a",
    "l", " ", "i", "s", "s", "u", "e", "s", " ", "t", "o", " ", "l", "e", "a", "d">>
Q_assign_lead == <<"A", "s", "s", "i", "g", "n", " ", "l", "e", "a", "d">>
Q_twice == <<"d", "u", "e", " ", " ", "d", "u", "e">>
Q_date == <<"d", "a", "t", "e">>
Q_empty == <<>>

\* most records of a corpus file
MaxCorpus == 3

ShotRecords == {S_assign, S_due, S_desc, S_tag}
ShotQueries == {Q_scenario, Q_assign_lead, Q_twice, Q_date, Q_empty}
DatabaseFiles ==
  {DbNoPath, DbMissing, DbUnreadable, DbUndecodable}
    \cup {DbContent(c) : c \in SeqsUpTo(ShotRecords, MaxCorpus)}

SL_open == <<"/", "*", "*">>
SL_doc == <<" ", "*", " ", "A", "s", "s", "i", "g", "n", " ", "t", "h", "e", " ", "L", "e", "a", "d">>
SL_close == <<" ", "*", "/">>
SL_assign == <<"a", "s", "s", "i", "g", "n", "(", "l", "e", "a", "d", ")", ";">>
SL_lead == <<"l", "e", "a", "d", " ", "=", " ", "d", "u", "e", ";">>
SL_other == <<"x", " ", "=", " ", "1", ";">>
\* an end marker behind comment text
SL_close_lead == <<" ", "*", " ", "t", "h", "e", " ", "l", "e", "a", "d", " ", "*", "/">>
\* a comment block on one line
SL_oneline == <<"/", "*", "*", " ", "a", "s", "s", "i", "g", "n", " ", "*", "/">>

F_a == [path |-> <<"a", ".", "j", "s">>,
        lines |-> <<SL_open, SL_doc, SL_close, SL_assign, SL_other>>]
F_b == [path |-> <<"b", ".", "j", "s">>, lines |-> <<SL_assign, SL_lead>>]
\* an empty file: "".split("\n") is one empty line
F_empty == [path |-> <<"e", ".", "j", "s">>, lines |-> <<L_empty>>]
F_txt == [path |-> <<"n", "o", "t", "e", "s", ".", "t", "x", "t">>, lines |-> <<SL_assign>>]
F_c == [path |-> <<"c", ".", "j", "s">>,
        lines |-> <<SL_open, SL_doc, SL_close_lead, SL_other>>]
F_d == [path |-> <<"d", ".", "j", "s">>, lines |-> <<SL_oneline, SL_assign>>]

\* most files of an API directory
MaxFiles == 3

SourceFiles == {F_a, F_b, F_c, F_d, F_empty, F_txt}
\* a walk yields every file once
Trees ==
  {t \in SeqsUpTo(SourceFiles, MaxFiles) :
     \A i, j \in 1..Len(t) : t[i].path = t[j].path => i = j}
ApiDirs == {DirMissing} \cup {DirTree(t) : t \in Trees}

InitRetrieval ==
  /\ Unstarted
  /\ response \in [query : ShotQueries, database : DatabaseFiles]
                    \cup [query : ShotQueries, api_dir : ApiDirs]
  /\ parsed = None

\* RetrieveCodeShotsTool(database_path)
ConstructShots ==
  /\ tool = None
  /\ "database" \in DOMAIN response
  /\ tool' = Some(initialize_database(response.database))
  /\ UNCHANGED <<pc, runs, locals, session, file, history, response, parsed>>

\* RetrieveCodeShotsTool.execute(query)
RetrieveShots ==
  /\ tool # None /\ parsed = None
  /\ "code_shots" \in DOMAIN tool[1]
  /\ parsed' = Some(retrieve_execute(tool[1].code_shots, response.query))
  /\ UNCHANGED <<pc, runs, locals, session, file, history, response, tool>>

\* SearchCodeTool(api_dir)
ConstructSource ==
  /\ tool = None
  /\ "api_dir" \in DOMAIN response
  /\ tool' = Some(search_init(response.api_dir))
  /\ UNCHANGED <<pc, runs, locals, session, file, history, response, parsed>>

\* SearchCodeTool.execute(query)
SearchSource ==
  /\ tool # None /\ parsed = None
  /\ "api_dir" \in DOMAIN tool[1]
  /\ parsed' = Some(search_execute(tool[1].api_dir, response.query))
  /\ tool' = Some([tool[1] EXCEPT !.file_cache = cache_after(@, tool[1].api_dir)])
  /\ UNCHANGED <<pc, runs, locals, session, file, history, response>>

NextRetrieval == ConstructShots \/ RetrieveShots \/ ConstructSource \/ SearchSource

SpecRetrieval == InitRetrieval /\ [][NextRetrieval]_vars

\* ------------------------------------------------------------------------
\* The generation stage on its own: every outcome of its LLM call with a
\* response of up to MaxFenceLines lines
\* ------------------------------------------------------------------------
L_fence_open == "FENCEjavascript"
L_fence == "FENCE"
L_fence_inline == "Use FENCEinlineFENCE code"

\* longest generation response, in lines
MaxFenceLines == 7

FenceLines == {L_fence_open, L_fence, L_fence_inline, L_import, L_rule}

\* the empty response is one empty line
GenerationReplies ==
  {ReplyException, ReplyNoChoices, ReplyContent(<<"">>)}
    \cup {ReplyContent(c) : c \in SeqsUpTo(FenceLines, MaxFenceLines) \ {<<>>}}

InitGeneration ==
  /\ Unstarted
  /\ response \in GenerationReplies
  /\ parsed = None

\* GenerateCodeTool.execute: llm_tool.generate_code, then the script or the
\* template
GenerateCode ==
  /\ parsed = None
  /\ LET result == llm_generate_code(response)
     IN  parsed' = Some(IF Raised(result) THEN result
                        ELSE [result |-> result, script |-> generate_execute(result)])
  /\ UNCHANGED <<pc, runs, locals, session, file, history, response, tool>>

NextGeneration == GenerateCode

SpecGeneration == InitGeneration /\ [][NextGeneration]_vars

\* ------------------------------------------------------------------------
\* The validation stage on its own: every script of up to MaxScriptLines
\* lines and the template, under each outcome of the syntax checker
\* ------------------------------------------------------------------------
L_assignment == "ctx.issue.fields.State = 'Open';"
L_while == "while (true) {}"
L_try == "try { f(); } finally {}"

\* longest script other than the template, in lines
MaxScriptLines == 3

ScriptLines == {L_import, L_rule, L_rule_noguard, L_assignment, L_while, L_try}
Scripts ==
  {default_script(E_exception), <<"">>}
    \cup (SeqsUpTo(ScriptLines, MaxScriptLines) \ {<<>>})

InitValidation ==
  /\ Unstarted
  /\ response \in [code : Scripts, node : NodeOutcomes]
  /\ parsed = None

\* TestCodeAction.execute(code)
TestCode ==
  /\ parsed = None
  /\ parsed' = Some(test_execute(response.code, response.node))
  /\ UNCHANGED <<pc, runs, locals, session, file, history, response, tool>>

NextValidation == TestCode

SpecValidation == InitValidation /\ [][NextValidation]_vars

\* ------------------------------------------------------------------------
\* Construction from what is on disk: the memory from a storage directory of
\* up to MaxSessionFiles files, the corpus from each corpus file
\* ------------------------------------------------------------------------
N_session_1 == <<"s", "e", "s", "s", "i", "o", "n", "_", "1", ".", "j", "s", "o", "n">>
N_session_2 == <<"s", "e", "s", "s", "i", "o", "n", "_", "2", ".", "j", "s", "o", "n">>
N_notes == <<"n", "o", "t", "e", "s", ".", "t", "x", "t">>

\* most files of a storage directory
MaxSessionFiles == 3

FileNames == {N_session_1, N_session_2, N_notes}
FileContents == {FileNotJson, FileUndecodable, FileOtherJson,
                 FileSession("s1", 1), FileSession("s2", 2), FileSession("s3", 2)}
\* a directory lists every name once
StorageDirs ==
  {d \in SeqsUpTo([name : FileNames, content : FileContents], MaxSessionFiles) :
     \A i, j \in 1..Len(d) : d[i].name = d[j].name => i = j}

InitConstruction ==
  /\ Unstarted
  /\ response \in [storage : StorageDirs] \cup [query : {Q_empty}, database : DatabaseFiles]
  /\ parsed = None

\* Memory(storage_path)
ConstructMemory ==
  /\ tool = None
  /\ "storage" \in DOMAIN response
  /\ \E strict \in BOOLEAN :
       tool' = Some(memory_init(response.storage, strict))
  /\ UNCHANGED <<pc, runs, locals, session, file, history, response, parsed>>

NextConstruction == ConstructMemory \/ ConstructShots

SpecConstruction == InitConstruction /\ [][NextConstruction]_vars

\* ------------------------------------------------------------------------
\* The list sections of both parsers: every response of up to MaxItemLines
\* lines of section headers and item lines
\* ------------------------------------------------------------------------
L_requirements == <<"R", "e", "q", "u", "i", "r", "e", "m", "e", "n", "t", "s", ":">>
\* a numbered item with two spaces behind the dot
L_num_wide == <<"1", ".", " ", " ", "a">>
\* a bulleted item with two spaces behind the bullet
L_bul_wide == <<"-", " ", " ", "b">>

\* longest response of the list sections specification, in lines
MaxItemLines == 3

ItemLines == {L_steps, L_missing, L_ambig, L_components, L_requirements,
              L_num, L_num_wide, L_bul_wide, L_plain}

InitItems ==
  /\ Unstarted
  /\ response \in SeqsUpTo(ItemLines, MaxItemLines)
  /\ parsed = None

\* PlanStrategy._parse_plan_result(content)
ParsePlan ==
  /\ parsed = None
  /\ parsed' = Some(parse_plan_result(response))
  /\ UNCHANGED <<pc, runs, locals, session, file, history, response, tool>>

NextItems == ParseCot \/ ParsePlan

SpecItems == InitItems /\ [][NextItems]_vars

\* ------------------------------------------------------------------------
\* Sessions on one storage directory: up to MaxSessions memories, created at
\* clock readings up to MaxSecond, each saving its session on every add;
\* tool is the sequence of the memories, file the list of the files of the
\* directory
\* ------------------------------------------------------------------------
\* most memories constructed on the directory
MaxSessions == 2
\* last whole second of the clock
MaxSecond == 1

Readings == [second : 0..MaxSecond, micro : 0..1]

InitStorage ==
  /\ Unstarted
  /\ response = <<>>
  /\ parsed = None

\* Memory(storage_path), at a reading not before that of the memory
\* constructed last
NewMemory ==
  /\ Len(tool) < MaxSessions
  /\ \E now \in Readings, strict \in BOOLEAN :
       /\ \A i \in 1..Len(tool) : tool[i].current_session.timestamp <= isoformat(now)
       /\ ~Raised(memory_at(now, file, strict))
       /\ tool' = Append(tool, memory_at(now, file, strict))
  /\ UNCHANGED <<pc, runs, locals, session, file, history, response, parsed>>

\* memory.add_user_prompt(p) on one of the memories
AddUserPrompt ==
  /\ \E k \in 1..Len(tool), p \in {P_request, P_updated} :
       LET sess == add_user_prompt(tool[k].current_session, p) IN
       /\ tool' = [tool EXCEPT ![k].current_session = sess]
       /\ file' = save_to_directory(file, sess)
  /\ UNCHANGED <<pc, runs, locals, session, history, response, parsed>>

\* memory.add_plan(plan) on one of the memories
AddPlan ==
  /\ \E k \in 1..Len(tool) :
       LET sess == add_plan(tool[k].current_session,
                            plan_execute(P_request, llm_execute(ReplyException))) IN
       /\ tool' = [tool EXCEPT ![k].current_session = sess]
       /\ file' = save_to_directory(file, sess)
  /\ UNCHANGED <<pc, runs, locals, session, history, response, parsed>>

NextStorage == NewMemory \/ AddUserPrompt \/ AddPlan

SpecStorage == InitStorage /\ [][NextStorage]_vars

\* ------------------------------------------------------------------------
\* Properties
\* ------------------------------------------------------------------------
IsPrefix(a, b) == Len(a) <= Len(b) /\ SubSeq(b, 1, Len(a)) = a

StagesOnce == <<"REASON", "CLARIFY", "PLAN", "RETRIEVE", "GENERATE", "VALIDATE">>
StagesRetry == StagesOnce \o <<"REGENERATE", "REVALIDATE">>

\* C1: when generate_workflow_script has returned, generation and validation
\* ran twice each if the first validation failed and once each if it
\* succeeded, and the returned script is the one given to the last validation.
RetryLaw ==
  pc = "done" =>
    /\ validated # <<>>
    /\ ~validated[1].result.success => gen_calls = 2 /\ Len(validated) = 2
    /\ validated[1].result.success => gen_calls = 1 /\ Len(validated) = 1
    /\ returned = Some(validated[Len(validated)].code)

\* C1 witness: a retry whose script differs from the first and fails again
RetryLawWitness ==
  /\ pc = "done"
  /\ Len(validated) = 2
  /\ validated[1].code # validated[2].code
  /\ ~validated[2].result.success

\* C2: the stages of a run are performed in the fixed order, none skipped;
\* a finished run performed the six stages, or the six and the retry pair.
StageOrder ==
  /\ IsPrefix(stages, StagesRetry)
  /\ pc = "reason" => Len(stages) = 0
  /\ pc = "clarify" => Len(stages) = 1
  /\ pc \in {"collect", "fold", "plan"} => Len(stages) = 2
  /\ pc = "search" => Len(stages) = 3
  /\ pc \in {"retrieve", "generate"} => Len(stages) = 4
  /\ pc = "validate" => Len(stages) = 5
  /\ pc = "regenerate" => Len(stages) = 6
  /\ pc = "revalidate" => Len(stages) = 7
  /\ pc = "done" => stages \in {StagesOnce, StagesRetry}

\* C2 witness: a finished run with the retry
StageOrderWitness == pc = "done" /\ stages = StagesRetry

PastClarify == {"plan", "search", "retrieve", "generate", "validate",
                "regenerate", "revalidate", "done"}

\* C3: whatever the reasoning record, a run that is past the clarification
\* stage has generated questions, collected the answers and folded them into
\* the request.
ClarifyAlways ==
  pc \in PastClarify =>
    /\ Len(stages) >= 2 /\ stages[2] = "CLARIFY"
    /\ clarification_questions # None
    /\ user_feedback # None
    /\ Len(user_feedback[1].responses) = Len(clarification_questions[1])
    /\ prompt = Some(update_prompt_with_clarification(session.user_prompt[1],
                                                       user_feedback[1]))
    /\ session.updated_prompt = prompt

\* C3 witness: clarification done for a record that asks for none
ClarifyAlwaysWitness ==
  /\ pc = "plan"
  /\ cot_result[1].success
  /\ ~cot_result[1].needs_clarification
  /\ cot_result[1].missing_information = <<>>
  /\ cot_result[1].ambiguities = <<>>

InRun == {"reason", "clarify", "collect", "fold", "plan", "search", "retrieve",
          "generate", "validate", "regenerate", "revalidate", "done"}

\* the session fields written by the stages before the generation
StageFields == {"cot_result", "clarification_questions", "user_feedback",
                "plan", "search_results", "code_shots"}

\* the output a finished stage left in the frame of the run
Output(f) ==
  CASE f = "cot_result" -> cot_result
    [] f = "clarification_questions" -> clarification_questions
    [] f = "user_feedback" -> user_feedback
    [] f = "plan" -> plan
    [] f = "search_results" -> search_results
    [] f = "code_shots" -> code_shots

\* C5: at every position of a run the session file holds the in-memory
\* session, and that session holds the request and the output of every stage
\* of the run finished so far.
SessionPersisted ==
  pc \in InRun =>
    /\ file = Some(session)
    /\ prompt \in {session.user_prompt, session.updated_prompt}
    /\ \A f \in StageFields : Output(f) # None => session[f] = Output(f)
    /\ generated_code # None =>
         generated_code \in {session.generated_code, session.regenerated_code}
    /\ test_result # None =>
         test_result \in {session.test_result, session.final_test_result}

\* C5 witness: the generation stage starts with the earlier outputs on file
SessionPersistedWitness ==
  /\ pc = "generate"
  /\ file # None
  /\ file[1].plan = plan /\ plan # None
  /\ file[1].code_shots = code_shots /\ code_shots # None

OnceFields == {"user_prompt", "cot_result", "clarification_questions",
               "user_feedback", "updated_prompt", "plan", "search_results",
               "code_shots", "generated_code", "regenerated_code"}

\* C6: a session field other than the test-result pair that holds a value is
\* never changed by a later operation.
FieldsSetOnce ==
  [][\A f \in OnceFields : session[f] # None => session'[f] = session[f]]_vars

\* C7: when a run returns, test_result is the result of the first validation
\* of that run, and final_test_result is set exactly when the run retried,
\* to the result of the retry's validation.
TestResultSlots ==
  pc = "done" =>
    /\ session.test_result = Some(validated[1].result)
    /\ (session.final_test_result # None) <=> (Len(validated) = 2)
    /\ Len(validated) = 2 => session.final_test_result = Some(validated[2].result)

\* C8: when the LLM call of the reasoning stage failed, the record is the
\* empty one with needs_clarification true, and nothing was raised.
ReasonFailureRecord ==
  /\ pc # "raised"
  /\ (llm_replies # <<>> /\ llm_replies[1].reply.kind # "content") =>
       /\ cot_result # None
       /\ cot_result[1].reasoning = <<>>
       /\ cot_result[1].steps = <<>>
       /\ cot_result[1].missing_information = <<>>
       /\ cot_result[1].ambiguities = <<>>
       /\ cot_result[1].needs_clarification = TRUE

\* C8 witness: the reasoning stage has just run on a failed call
ReasonFailureWitness ==
  /\ pc = "clarify"
  /\ llm_replies[1].reply.kind = "exception"
  /\ ~cot_result[1].success

\* C9: a parsed record with a missing-information item or an ambiguity item
\* has needs_clarification true, whatever a "Needs Clarification:" line says.
GapsForceClarification ==
  parsed # None =>
    ((parsed[1].missing_information # <<>> \/ parsed[1].ambiguities # <<>>)
       => parsed[1].needs_clarification = TRUE)

\* C9 witness: an item was extracted and the response ends with an explicit No
GapsForceWitness ==
  /\ parsed # None
  /\ parsed[1].missing_information # <<>>
  /\ response[Len(response)] = L_ncNo

CotHeaders == {H_reasoning, H_steps, H_missing, H_ambiguities, H_needs}

\* no line, trimmed and lowercased as the parser reads it, begins with a header
NoHeaderLine(lines) ==
  \A i \in 1..Len(lines) :
    \A h \in CotHeaders : ~startswith(lower(strip(lines[i])), h)

\* C10: a response without any section header line parses to the empty
\* record with needs_clarification false.
NoHeaderEmptyRecord ==
  (parsed # None /\ NoHeaderLine(response)) =>
    /\ parsed[1].reasoning = <<>>
    /\ parsed[1].steps = <<>>
    /\ parsed[1].missing_information = <<>>
    /\ parsed[1].ambiguities = <<>>
    /\ parsed[1].needs_clarification = FALSE

\* C10 witness: three item-like lines and no header
NoHeaderWitness ==
  /\ parsed # None
  /\ response = <<L_num, L_bul, L_plain>>

\* a line the question parser takes: trimmed, it starts with "1." to "9." or
\* ends with "?"
IsQuestionLine(raw) ==
  LET line == strip(raw)
  IN  (\E n \in NumberPrefixes : startswith(line, n)) \/ endswith(line, <<"?">>)

NoQuestionLine(lines) == \A i \in 1..Len(lines) : ~IsQuestionLine(lines[i])

\* C11 as stated: the clarification stage always returns at least one
\* question; a response without a question line gives exactly one question,
\* the whole response; a failed LLM call gives exactly the fallback question.
AskAtLeastOne ==
  parsed # None =>
    /\ Len(parsed[1]) >= 1
    /\ (response.kind = "content" /\ NoQuestionLine(response.content)) =>
         parsed[1] = <<join_lines(response.content)>>
    /\ response.kind # "content" => parsed[1] = <<Q_default>>

\* C11 amended: a failed LLM call gives exactly the fallback question; a
\* blank response gives no question; a response that is not blank gives at
\* least one question, and when it has no question line exactly one, the
\* trimmed response.
AskQuestions ==
  parsed # None =>
    /\ response.kind # "content" => parsed[1] = <<Q_default>>
    /\ response.kind = "content" =>
         LET whole == strip(join_lines(response.content)) IN
         /\ whole = <<>> => parsed[1] = <<>>
         /\ whole # <<>> => Len(parsed[1]) >= 1
         /\ (whole # <<>> /\ NoQuestionLine(response.content)) =>
              parsed[1] = <<whole>>

\* C11 witness: two plain lines with surrounding blanks became one question
AskQuestionsWitness ==
  /\ parsed # None
  /\ response = ReplyContent(<<K_padded, L_plain, K_blank>>)
  /\ Len(parsed[1]) = 1

\* the note piece is in a request text
HasNote(text) == \E i \in 1..Len(text) : text[i].piece = "note"

\* trimmed length at most 3, or in the stoplist when lowercased
MinimalAnswer(a) == Len(strip(a)) <= 3 \/ lower(a) \in StopList

\* C12: the updated request holds the "make reasonable assumptions" note when
\* every answer has trimmed length at most 3 or is, lowercased, in the
\* stoplist, and does not hold it when some answer is longer than 3 trimmed
\* and outside the stoplist.
NoteIffMinimal ==
  parsed # None =>
    /\ (\A i \in 1..Len(response) : MinimalAnswer(response[i])) => HasNote(parsed[1])
    /\ (\E i \in 1..Len(response) : ~MinimalAnswer(response[i])) => ~HasNote(parsed[1])

\* C12 witness: the answers yes, no and a padded ok were folded back
NoteIffMinimalWitness ==
  /\ parsed # None
  /\ response = <<A_yes, A_no, A_ok_padded>>
  /\ HasNote(parsed[1])

\* the query tokens (with their repetitions) that occur in a text
TokensIn(query, text) ==
  LET tokens == split_ws(lower(query))
  IN  {i \in 1..Len(tokens) : contains(text, tokens[i])}

\* the relevance C13 states: the tags add 2 once, if any tag occurs in the query
ClaimedRelevance(r, query) ==
  3 * Cardinality(TokensIn(query, lower(r.title)))
    + Cardinality(TokensIn(query, lower(r.description)))
    + (IF \E i \in 1..Len(r.tags) : contains(lower(query), r.tags[i]) THEN 2 ELSE 0)

\* the relevance with 2 for each tag that, lowercased, occurs in the query
PerTagRelevance(r, query) ==
  3 * Cardinality(TokensIn(query, lower(r.title)))
    + Cardinality(TokensIn(query, lower(r.description)))
    + 2 * Cardinality({i \in 1..Len(r.tags) : contains(lower(query), lower(r.tags[i]))})

\* copies of x in the list s
CountOf(s, x) == Cardinality({i \in 1..Len(s) : s[i] = x})

\* the result holds, with relevance Rel, exactly the records whose Rel is above 0
ResultsAre(Rel(_, _)) ==
  LET corpus == tool[1].code_shots
      query == response.query
      results == parsed[1]
  IN  /\ Len(results) = Cardinality({i \in 1..Len(corpus) : Rel(corpus[i], query) > 0})
      /\ \A i \in 1..Len(corpus) :
           Rel(corpus[i], query) > 0 =>
             CountOf(results, with_relevance(corpus[i], Rel(corpus[i], query)))
               = CountOf(corpus, corpus[i])

\* C13 as stated: relevance is 3 per query token in the title, 1 per query
\* token in the description, plus 2 if any tag occurs in the query; the
\* result holds exactly the records of relevance above 0.
ShotsRelevanceAnyTag ==
  (parsed # None /\ "database" \in DOMAIN response) => ResultsAre(ClaimedRelevance)

\* C13 amended: relevance is 3 per query token in the lowercased title, 1 per
\* query token in the lowercased description, plus 2 for each tag whose
\* lowercased text occurs in the lowercased query; the result holds exactly
\* the records of relevance above 0.
ShotsRelevancePerTag ==
  (parsed # None /\ "database" \in DOMAIN response) => ResultsAre(PerTagRelevance)

\* C13 witness: a record scored on two title tokens, one description token
\* and two tags (6+1+4) comes first of three
ShotsRelevanceWitness ==
  /\ parsed # None
  /\ response = [query |-> Q_assign_lead, database |-> DbContent(<<S_tag, S_due, S_assign>>)]
  /\ Len(parsed[1]) = 3
  /\ parsed[1][1] = with_relevance(S_assign, 11)

\* a list of results is in descending order of relevance
Descending(results) ==
  \A i, j \in 1..Len(results) : i < j => results[i].relevance >= results[j].relevance

\* the corpus results of each relevance are the records found with that
\* relevance, in corpus order
CorpusOrderKept(corpus, results) ==
  \A v \in {results[j].relevance : j \in 1..Len(results)} :
    LET found == SelectSeq(corpus, LAMBDA c :
                   \E j \in 1..Len(results) : results[j] = with_relevance(c, v))
    IN  SelectSeq(results, LAMBDA r : r.relevance = v)
          = [k \in 1..Len(found) |-> with_relevance(found[k], v)]

\* position of a result's file in the walk
WalkIndex(files, r) == CHOOSE k \in 1..Len(files) : files[k].path = r.file_path

\* source results of equal relevance are in walk order, then in line order
WalkOrderKept(files, results) ==
  \A i, j \in 1..Len(results) :
    (i < j /\ results[i].relevance = results[j].relevance) =>
      \/ WalkIndex(files, results[i]) < WalkIndex(files, results[j])
      \/ /\ results[i].file_path = results[j].file_path
         /\ results[i].line < results[j].line

\* C14: the results of corpus search and of source-tree search are in
\* descending order of relevance, and results of equal relevance keep the
\* order in which they were found.
RetrievalSortedStable ==
  parsed # None =>
    /\ Descending(parsed[1])
    /\ "database" \in DOMAIN response =>
         CorpusOrderKept(tool[1].code_shots, parsed[1])
    /\ "api_dir" \in DOMAIN response =>
         WalkOrderKept(tool[1].api_dir, parsed[1])

\* C14 witness: two records of relevance 1 keep their corpus order behind a
\* record of relevance 2 that stood between them
RetrievalSortedWitness ==
  /\ parsed # None
  /\ response = [query |-> Q_assign_lead, database |-> DbContent(<<S_desc, S_tag, S_due>>)]
  /\ parsed[1] = <<with_relevance(S_tag, 2), with_relevance(S_desc, 1),
                   with_relevance(S_due, 1)>>

\* a result that matches only through its description: no query token in
\* its title and none of its tags in the query
DescriptionOnly(r, query) ==
  /\ TokensIn(query, lower(r.title)) = {}
  /\ \A i \in 1..Len(r.tags) : ~contains(lower(query), lower(r.tags[i]))

\* C15: for the query "auto-assign critical issues to lead" over the built-in
\* corpus, the result holds the record auto_assign_critical with relevance at
\* least 3, before every result that matches only through its description.
ScenarioSurfacesSeed ==
  (/\ parsed # None
   /\ "database" \in DOMAIN response
   /\ response.query = Q_scenario
   /\ response.database \in {DbNoPath, DbMissing}) =>
    \E i \in 1..Len(parsed[1]) :
      /\ parsed[1][i].id = "auto_assign_critical"
      /\ parsed[1][i].relevance >= 3
      /\ \A j \in 1..Len(parsed[1]) :
           DescriptionOnly(parsed[1][j], Q_scenario) => i < j

\* C15 witness: the scenario query ran on the built-in corpus and a record
\* matching only through its description was returned as well
ScenarioSurfacesWitness ==
  /\ parsed # None
  /\ response = [query |-> Q_scenario, database |-> DbNoPath]
  /\ \E j \in 1..Len(parsed[1]) :
       /\ parsed[1][j].id = "notify_on_comment"
       /\ DescriptionOnly(parsed[1][j], Q_scenario)

\* the corpus is empty or its file is missing; the source directory is empty
\* or does not exist
AbsentCorpus ==
  IF "database" \in DOMAIN response
  THEN response.database \in {DbMissing, DbContent(<<>>)}
  ELSE response.api_dir \in {DirMissing, DirTree(<<>>)}

\* C16: with an empty or missing corpus or source directory, constructing
\* the retrieval component raises no error and a query yields the empty list.
RetrievalToleratesAbsence ==
  AbsentCorpus =>
    /\ tool # None => ~Raised(tool[1])
    /\ parsed # None => parsed[1] = <<>>

\* positions of the lines that start with the fence marker
MarkerLines(content) == {i \in 1..Len(content) : content[i] \in LinesWith.fence_start}

\* position of the k-th such line
MarkerAt(content, k) ==
  CHOOSE p \in MarkerLines(content) :
    Cardinality({q \in MarkerLines(content) : q <= p}) = k

\* number of fenced regions: an opening marker line and a later closing one
ClosedRegions(content) == Cardinality(MarkerLines(content)) \div 2

\* the lines between the markers of the k-th region; no line is the empty text
RegionText(content, k) ==
  LET body == SubSeq(content, MarkerAt(content, 2 * k - 1) + 1,
                     MarkerAt(content, 2 * k) - 1)
  IN  IF body = <<>> THEN <<"">> ELSE body

\* regions k..n in order, a blank line between two
RECURSIVE RegionsFrom(_, _, _)
RegionsFrom(content, k, n) ==
  IF k > n THEN <<"">>
  ELSE IF k = n THEN RegionText(content, k)
  ELSE RegionText(content, k) \o <<"">> \o RegionsFrom(content, k + 1, n)

HasMarker(text) == \E i \in 1..Len(text) : text[i] \in LinesWith.fence

\* C17 as stated: a response that contains the fence marker gives the fenced
\* regions joined by a blank line, with no marker in the script; a response
\* without the marker gives the entire response.
ExtractAllRegions ==
  (parsed # None /\ response.kind = "content") =>
    LET content == response.content
        script == parsed[1].script
    IN  /\ HasMarker(content) =>
             /\ script = RegionsFrom(content, 1, ClosedRegions(content))
             /\ ~HasMarker(script)
        /\ ~HasMarker(content) => script = content

\* C17 amended: when the response has a fenced region (a line starting with
\* the marker and a later such line closing it), the script is the regions in
\* order joined by a blank line, no line of it starts with the marker, and
\* lines outside the regions are left out; otherwise the script is the
\* entire response.
ExtractClosedRegions ==
  (parsed # None /\ response.kind = "content") =>
    LET content == response.content
        script == parsed[1].script
    IN  /\ ClosedRegions(content) >= 1 =>
             /\ script = RegionsFrom(content, 1, ClosedRegions(content))
             /\ MarkerLines(script) = {}
        /\ ClosedRegions(content) = 0 => script = content

\* C17 witness: two fenced blocks with a line outside them
ExtractWitness ==
  /\ parsed # None
  /\ response = ReplyContent(<<L_fence_open, L_import, L_fence,
                               L_fence_inline, L_fence, L_rule, L_fence>>)
  /\ parsed[1].script = <<L_import, "", L_rule>>

\* C18: the generation stage never raises and returns a script text that is
\* not empty, whatever its LLM call does; when the call fails the script is
\* the fixed template with the error message in its comment line.
GenerationAlwaysText ==
  parsed # None =>
    /\ ~Raised(parsed[1])
    /\ parsed[1].script # <<"">>
    /\ response.kind = "exception" =>
         /\ parsed[1].script = default_script(E_exception)
         /\ parsed[1].script[2] = "// Error generating code: ConnectionError"
    /\ response.kind = "no_choices" =>
         /\ parsed[1].script = default_script(E_no_content)
         /\ parsed[1].script[2] = "// Error generating code: No content in response"

\* C19: a validation result is successful exactly when the syntax check
\* passed and the heuristic check found no issue; the heuristic check runs
\* only when the syntax check passed; when the syntax check failed the result
\* is a failure that carries the checker's error text.
ValidationSuccess ==
  parsed # None =>
    LET r == parsed[1]
        node == response.node
        issues == IF "issues" \in DOMAIN r.validation THEN r.validation.issues ELSE <<>>
    IN  /\ r.syntax_check.success = node.success
        /\ r.success <=> (r.syntax_check.success /\ issues = <<>>)
        /\ node.success =>
             /\ issues = validate_issues(response.code)
             /\ r.validation.success <=> issues = <<>>
        /\ ~node.success =>
             /\ ~r.success
             /\ r.syntax_check.error = node.stderr
             /\ r.validation = [success |-> FALSE,
                                message |-> "Syntax check failed, skipping validation"]

\* C19 witness: a script that passes the syntax check and lacks the guard
ValidationSuccessWitness ==
  /\ parsed # None
  /\ response = [code |-> <<L_import, L_rule_noguard>>, node |-> NodeOk]
  /\ ~parsed[1].success
  /\ parsed[1].validation.issues = <<"Missing guard function">>

\* files of the directory that the loader reads and that hold a session record
SessionFiles(d) ==
  SelectSeq(d, LAMBDA f : /\ startswith(f.name, S_session_prefix)
                          /\ endswith(f.name, S_json)
                          /\ f.content.kind = "session")

\* C20: construction never raises on a malformed input: the memory holds
\* exactly the session records of the directory, every other session file
\* skipped, and an unreadable or undecodable corpus file gives the built-in
\* corpus.
MalformedNeverFatal ==
  tool # None =>
    /\ ~Raised(tool[1])
    /\ "storage" \in DOMAIN response =>
         LET kept == SessionFiles(response.storage)
         IN  /\ Len(tool[1].previous_sessions) = Len(kept)
             /\ \A i \in 1..Len(kept) :
                  \E j \in 1..Len(kept) : tool[1].previous_sessions[j] = kept[i].content.session
    /\ ("database" \in DOMAIN response
          /\ response.database \in {DbUnreadable, DbUndecodable}) =>
         tool[1].code_shots = default_database

\* the LLM calls of the run made by the stage
CallsOf(stage) == {i \in 1..Len(llm_replies) : llm_replies[i].stage = stage}

\* the prompt holds the text as its error or details piece
PromptCarries(p, text) ==
  \E i \in 1..Len(p) :
    \/ p[i].piece = "error" /\ p[i].error = text
    \/ p[i].piece = "details" /\ p[i].stderr = text

\* C21: the prompt of the retry holds the failure information of the first
\* validation: the syntax checker's error text when the syntax check failed,
\* every heuristic issue when the heuristic check failed.
RetryPromptCarriesFailure ==
  \A i \in CallsOf("REGENERATE") :
    LET first == validated[1].result
        sent == llm_replies[i].prompt
    IN  /\ ~first.syntax_check.success => PromptCarries(sent, first.syntax_check.error)
        /\ (first.syntax_check.success /\ ~first.validation.success) =>
             \A k \in 1..Len(first.validation.issues) :
               PromptCarries(sent, first.validation.issues[k])

\* C22: the prompt of the planning call holds the request as it stands after
\* clarification and, from the reasoning record of the run, its rationale and
\* its steps.
PlanPromptEmbedsReasoning ==
  \A i \in CallsOf("PLAN") :
    LET sent == llm_replies[i].prompt
        r == cot_result[1]
    IN  /\ \E k \in 1..Len(sent) :
             sent[k].piece = "plan_request" /\ sent[k].request = prompt[1]
        /\ r.reasoning # <<>> =>
             \E k \in 1..Len(sent) :
               sent[k].piece = "reasoning" /\ sent[k].reasoning = r.reasoning
        /\ r.steps # <<>> =>
             \E k \in 1..Len(sent) : sent[k].piece = "steps" /\ sent[k].steps = r.steps

\* the list fields of a reasoning record and of a plan record
ListFields == {"steps", "missing_information", "ambiguities", "components", "requirements"}

\* C23: every item of the steps, missing-information and ambiguity lists of
\* a reasoning record and of the components and requirements lists of a plan
\* record is a non-empty string without leading or trailing whitespace.
ItemsTrimmed ==
  parsed # None =>
    \A f \in ListFields \cap DOMAIN parsed[1] :
      \A i \in 1..Len(parsed[1][f]) :
        /\ parsed[1][f][i] # <<>>
        /\ strip(parsed[1][f][i]) = parsed[1][f][i]

\* the line, trimmed, starts with a numbered marker or with a bullet marker
IsMarked(raw) ==
  LET line == strip(raw)
  IN  line # <<>> /\ (starts_with_number(line) \/ starts_with_bullet(line))

\* the line, trimmed, is a section header of a reasoning response
IsHeader(raw) == \E h \in CotHeaders : startswith(lower(strip(raw)), h)

\* the lines of the response that lie in its Steps section: behind a
\* "Steps:" header with no other header in between
InSteps(lines) ==
  {i \in 1..Len(lines) :
     /\ ~IsHeader(lines[i])
     /\ strip(lines[i]) # <<>>
     /\ \E h \in 1..(i - 1) :
          /\ startswith(lower(strip(lines[h])), H_steps)
          /\ \A k \in (h + 1)..(i - 1) : ~IsHeader(lines[k])}

\* C24: in the Steps section every line that starts with a numbered or a
\* bullet marker starts a step entry, and only unmarked lines are appended to
\* the most recent entry: there are as many steps as marked lines.
MarkedLinesStartSteps ==
  parsed # None =>
    Len(parsed[1].steps) = Cardinality({i \in InSteps(response) : IsMarked(response[i])})

\* the file of the walk a source result names
FileOf(files, r) == files[WalkIndex(files, r)]

\* the unit a source result matched: the line, or the comment block from
\* the line with the start marker through the next line with the end marker
MatchedUnit(files, r) ==
  LET lines == FileOf(files, r).lines
      last == CHOOSE k \in (r.line + 1)..Len(lines) :
                /\ contains(lines[k], S_comment_close)
                /\ \A m \in (r.line + 1)..(k - 1) : ~contains(lines[m], S_comment_close)
  IN  IF r.type = "code" THEN lines[r.line]
      ELSE join_lines(SubSeq(lines, r.line, last))

\* the distinct query terms that occur in a text
DistinctTermsIn(query, text) ==
  LET tokens == split_ws(lower(query))
  IN  {tokens[i] : i \in TokensIn(query, text)}

\* C25 as stated: the relevance of a source result is the number of distinct
\* query terms that occur in its matched unit; a term repeated in the query
\* counts once.
SourceRelevanceDistinct ==
  (parsed # None /\ "api_dir" \in DOMAIN response) =>
    \A i \in 1..Len(parsed[1]) :
      parsed[1][i].relevance =
        Cardinality(DistinctTermsIn(response.query,
                                    lower(MatchedUnit(tool[1].api_dir, parsed[1][i]))))

\* C25: the relevance of a source result is the number of query tokens that
\* occur in its matched unit, a token counting once however often it occurs
\* in the unit and a term repeated in the query counting once per repetition.
SourceRelevancePerToken ==
  (parsed # None /\ "api_dir" \in DOMAIN response) =>
    \A i \in 1..Len(parsed[1]) :
      parsed[1][i].relevance =
        Cardinality(TokensIn(response.query,
                             lower(MatchedUnit(tool[1].api_dir, parsed[1][i]))))

\* C25 witness: the query "due  due" gives the one line that holds "due"
\* the relevance 2
SourceRelevanceWitness ==
  /\ parsed # None
  /\ response = [query |-> Q_twice, api_dir |-> DirTree(<<F_b>>)]
  /\ Len(parsed[1]) = 1
  /\ parsed[1][1].line = 2 /\ parsed[1][1].type = "code"
  /\ MatchedUnit(tool[1].api_dir, parsed[1][1]) = SL_lead
  /\ parsed[1][1].relevance = 2

\* the comment blocks of a file, each <<s, e>>: s a line with the start
\* marker, e the first line from s on with the end marker
CommentBlocks(lines) ==
  {be \in (1..Len(lines)) \X (1..Len(lines)) :
     /\ be[1] <= be[2]
     /\ contains(lines[be[1]], S_comment_open)
     /\ contains(lines[be[2]], S_comment_close)
     /\ \A k \in be[1]..(be[2] - 1) : ~contains(lines[k], S_comment_close)}

\* the results of a search that are of the given type and at the given line
\* of the file
ResultsAt(results, f, type, line) ==
  {i \in 1..Len(results) :
     /\ results[i].file_path = f.path
     /\ results[i].type = type
     /\ results[i].line = line}

\* C26: each comment block whose text holds a query term yields exactly one
\* result, the block with at most the 10 lines that follow it, and no line
\* of a comment block, its start and end lines included, yields a window
\* result.
BlocksYieldOneResult ==
  (parsed # None /\ "api_dir" \in DOMAIN response) =>
    LET js == get_js_files(tool[1].api_dir)
    IN  \A n \in 1..Len(js) :
          \A be \in CommentBlocks(js[n].lines) :
            LET lines == js[n].lines
                text == lower(join_lines(SubSeq(lines, be[1], be[2])))
                found == ResultsAt(parsed[1], js[n], "comment_with_code", be[1])
            IN  /\ TokensIn(response.query, text) # {} =>
                     /\ Cardinality(found) = 1
                     /\ \A i \in found :
                          parsed[1][i].code =
                            SubSeq(lines, be[1], Min(be[2] + 10, Len(lines)))
                /\ \A k \in be[1]..be[2] : ResultsAt(parsed[1], js[n], "code", k) = {}

\* the memory has saved its session
HasSaved(m) ==
  m.current_session.user_prompt # None \/ m.current_session.plan # None

\* C27: two sessions on one storage directory are persisted to two different
\* files, and every session that has saved finds its own record in its file,
\* whatever the other session wrote, also when both were created within the
\* same second.
SessionsInDistinctFiles ==
  /\ \A i, j \in 1..Len(tool) :
       i # j => session_file(tool[i].current_session) # session_file(tool[j].current_session)
  /\ \A i \in 1..Len(tool) :
       HasSaved(tool[i]) =>
         \E n \in 1..Len(file) :
           /\ file[n].name = session_file(tool[i].current_session)
           /\ file[n].content.session = tool[i].current_session

\* the final script of a session record: regenerated_code when it is set,
\* otherwise generated_code
FinalScript(s) == IF s.regenerated_code # None THEN s.regenerated_code ELSE s.generated_code

\* C28: whenever generate_workflow_script has returned, the final script of
\* the persisted session is the script returned, after any number of runs on
\* the agent.
FinalScriptIsReturned ==
  pc = "done" => (file # None /\ FinalScript(file[1]) = returned)

\* C29: whether an answer is substantive does not depend on the whitespace
\* around it: an answer is classified as its trimmed text is, so the note is
\* added when every answer, trimmed, is at most 3 characters long or,
\* trimmed and lowercased, in the stoplist.
SubstantiveIgnoresPadding ==
  parsed # None =>
    /\ \A i \in 1..Len(response) :
         is_substantive(response[i]) = is_substantive(strip(response[i]))
    /\ (\A i \in 1..Len(response) :
          Len(strip(response[i])) <= 3 \/ lower(strip(response[i])) \in StopList)
         => HasNote(parsed[1])

\* the retry fields of a session record are set in order: regenerated_code
\* only behind a failed first test, final_test_result only behind
\* regenerated_code
RetryFieldsOrdered(s) ==
  /\ s.regenerated_code # None =>
       /\ s.generated_code # None
       /\ s.test_result # None
       /\ ~s.test_result[1].success
  /\ s.final_test_result # None => s.regenerated_code # None

\* C30: in every state of a first run on a fresh session, in memory and in
\* the session file, regenerated_code is set only if generated_code and
\* test_result are set and test_result reports a failure, and
\* final_test_result is set only if regenerated_code is set.
RetryFieldsInOrder ==
  runs <= 1 =>
    /\ RetryFieldsOrdered(session)
    /\ file # None => RetryFieldsOrdered(file[1])

\* C30 witness: a first run has returned behind a retry; all four fields are
\* set and the first test failed
RetryFieldsWitness ==
  /\ runs = 1 /\ pc = "done"
  /\ file # None
  /\ file[1].generated_code # None /\ file[1].regenerated_code # None
  /\ file[1].test_result # None /\ ~file[1].test_result[1].success
  /\ file[1].final_test_result # None
  /\ file[1].regenerated_code = returned

====
